---- MODULE Spec2Model ----
(***************************************************************************)
(* Segment manager of pint.models.solar_wind_dispersion.SolarWindDispersionX *)
(* (SWX_/SWXP_/SWXR1_/SWXR2_ prefix parameters) and the range helpers of    *)
(* pint.utils that work on it; the relativistic Kepler solver and the       *)
(* derived post-Keplerian quantities of DDGRmodel.                          *)
(***************************************************************************)
EXTENDS Integers, Sequences, FiniteSets, TLC

\* ------------------------------------------------------------------ bounds
MaxIndex == 2
MaxMJD == 3
MaxSegs == 2
MaxToas == 1
MaxRawOps == 2
MaxMass == 3
MaxFreq == 3

\* Python's None, for an unset MJD bound and for index=None
None == -1

Indices == 1..MaxIndex
\* (mjd_start, mjd_end) as passed to add_swx_range: both unset, a range, an
\* empty range, an inverted range, and each bound unset alone
BoundPairs ==
    { <<None, None>>, <<1, MaxMJD>>, <<1, 1>>, <<MaxMJD, 1>>, <<None, 1>>, <<1, None>> }
\* the bounds add_swx_range is documented to take: both unset, or start <= end
ValidBounds(mjd_start, mjd_end) ==
    \/ mjd_start = None /\ mjd_end = None
    \/ mjd_start # None /\ mjd_end # None /\ mjd_start <= mjd_end

\* the MJDs of TOAs: the start, the inside and the end of the range
ToaMJDs == {1, MaxMJD - 1, MaxMJD}
IndexArgs == Indices \cup {None}
\* (swx, swxp, frozen) as passed to add_swx_range: the signature defaults and
\* a fitted segment with a non-default power-law index
ValueArgs ==
    { [swx |-> 0, swxp |-> 2, frozen |-> TRUE],
      [swx |-> 1, swxp |-> 3, frozen |-> FALSE] }

Prefixes == <<"SWX_", "SWXP_", "SWXR1_", "SWXR2_">>

VARIABLES
    params,        \* self.params: the parameter names, in registration order
    par,           \* the parameter objects: name -> [value, frozen]
    deriv_funcs,   \* names with a registered derivative function
    swx_toas_selector, \* hasattr(self, "swx_toas_selector")
    raw_ops,       \* direct add_param/remove_param calls made by the caller
    ddgr,          \* the DDGRmodel object: parameters and derived quantities
    kep,           \* the locals of the running _solve_kepler call
    sw,            \* the SolarWindDispersion parameters NE_SW, SWP, SWM
    dmx,           \* the DMX bins of a model: index -> [DMX, DMXR1, DMXR2, frozen]
    binning,       \* the locals of the running dmx_ranges call
    last           \* the last call: operation, argument, outcome

vars == <<params, par, deriv_funcs, swx_toas_selector, raw_ops, ddgr, kep, sw, dmx, binning, last>>

\* the component object
Self ==
    [params |-> params, par |-> par, deriv_funcs |-> deriv_funcs,
     swx_toas_selector |-> swx_toas_selector, setup_run |-> FALSE]

\* ------------------------------------------------------------ sequences
Range(s) == { s[k] : k \in DOMAIN s }

SetMax(S) == CHOOSE m \in S : \A x \in S : x <= m

RECURSIVE SeqRemove(_, _)
\* list.remove(x): drops the first occurrence
SeqRemove(s, x) ==
    IF s = <<>> THEN <<>>
    ELSE IF Head(s) = x THEN Tail(s)
    ELSE <<Head(s)>> \o SeqRemove(Tail(s), x)

RECURSIVE SortedSeq(_)
\* sorted(S) for a set of integers
SortedSeq(S) ==
    IF S = {} THEN <<>>
    ELSE LET m == CHOOSE x \in S : \A y \in S : x <= y
         IN <<m>> \o SortedSeq(S \ {m})

\* ------------------------------------------------------ call outcomes
Ok(self, ret) == [self |-> self, exc |-> "ok", msg |-> "", ret |-> ret]
Raise(self, exc, msg) == [self |-> self, exc |-> exc, msg |-> msg, ret |-> None]
\* statement sequencing: an exception ends the call
Then(r, F(_)) == IF r.exc # "ok" THEN r ELSE F(r.self)

\* ---------------------------------------------------- parameter names
\* prefix + f"{int(index):04d}"
ParName(prefix, index) == <<prefix, index>>
\* pint.utils.split_prefixed_name(name)[2]
split_prefixed_name(name) == name[2]

\* ------------------------------------------- Component (timing_model)
add_param(self, name, value, frozen) ==
    IF name \in Range(self.params)
    THEN IF self.par[name].value # None
         THEN Raise(self, "ValueError", "second parameter")
         ELSE Ok([self EXCEPT !.par = [@ EXCEPT ![name] =
                                    [value |-> value, frozen |-> frozen]]], None)
    ELSE Ok([self EXCEPT
               !.params = Append(@, name),
               !.par = [n \in DOMAIN @ \cup {name} |->
                          IF n = name THEN [value |-> value, frozen |-> frozen]
                          ELSE @[n]]], None)

remove_param(self, name) ==
    IF name \notin Range(self.params)
    THEN Raise(self, "ValueError", "not listed")
    ELSE Ok([self EXCEPT
               !.params = SeqRemove(@, name),
               !.par = [n \in DOMAIN @ \ {name} |-> @[n]]], None)

\* index -> parameter name, for the parameters of one prefix
get_prefix_mapping_component(self, prefix) ==
    [i \in { n[2] : n \in { m \in Range(self.params) : m[1] = prefix } } |->
        ParName(prefix, i)]

register_deriv_funcs(self, name) ==
    [self EXCEPT !.deriv_funcs = @ \cup {name}]

\* ------------------------------------------------ SolarWindDispersionX
RECURSIVE setup_loop(_, _)
setup_loop(self, names) ==
    IF names = <<>> THEN Ok(self, None)
    ELSE LET prefix_par == Head(names)
             p_name == ParName("SWXP_", split_prefixed_name(prefix_par))
         IN IF prefix_par[1] = "SWX_"
            THEN LET r == IF p_name \notin DOMAIN self.par
                          THEN add_param(self, p_name, 2, TRUE)
                          ELSE Ok(self, None)
                 IN Then(r, LAMBDA s :
                        setup_loop(register_deriv_funcs(s, prefix_par), Tail(names)))
            ELSE IF prefix_par[1] = "SWXP_"
            THEN setup_loop(register_deriv_funcs(self, prefix_par), Tail(names))
            ELSE setup_loop(self, Tail(names))

\* slip: missing SWXR1_ and SWXR2_ parameters are put in as well, unset
setup_default_ranges(self) ==
    LET s == setup_loop([self EXCEPT !.setup_run = TRUE], self.params).self
        keys == SortedSeq(DOMAIN get_prefix_mapping_component(s, "SWX_"))
        cand == [k \in DOMAIN keys |-> ParName("SWXR1_", keys[k])]
                \o [k \in DOMAIN keys |-> ParName("SWXR2_", keys[k])]
        new == SelectSeq(cand, LAMBDA n : n \notin DOMAIN s.par)
    IN Ok([s EXCEPT !.params = @ \o new,
                    !.par = [n \in DOMAIN @ \cup Range(new) |->
                               IF n \in Range(new) THEN [value |-> None, frozen |-> TRUE]
                               ELSE @[n]]], None)

\* setup(); setup_run notes that the call was made
setup(self) == setup_loop([self EXCEPT !.setup_run = TRUE], self.params)

\* slip: the SWXR2_ family is not compared
validate_skip_swxr2(self) ==
    LET SWX_mapping == get_prefix_mapping_component(self, "SWX_")
        SWXP_mapping == get_prefix_mapping_component(self, "SWXP_")
        SWXR1_mapping == get_prefix_mapping_component(self, "SWXR1_")
    IN IF DOMAIN SWX_mapping # DOMAIN SWXP_mapping
       THEN Raise(self, "ValueError", "SWX_ parameters do not match SWXP_ parameters.")
       ELSE IF DOMAIN SWX_mapping # DOMAIN SWXR1_mapping
       THEN Raise(self, "ValueError", "SWX_ parameters do not match SWXR1_ parameters.")
       ELSE Ok(self, None)

validate(self) ==
    LET SWX_mapping == get_prefix_mapping_component(self, "SWX_")
        SWXP_mapping == get_prefix_mapping_component(self, "SWXP_")
        SWXR1_mapping == get_prefix_mapping_component(self, "SWXR1_")
        SWXR2_mapping == get_prefix_mapping_component(self, "SWXR2_")
    IN IF DOMAIN SWX_mapping # DOMAIN SWXP_mapping
       THEN Raise(self, "ValueError", "SWX_ parameters do not match SWXP_ parameters.")
       ELSE IF DOMAIN SWX_mapping # DOMAIN SWXR1_mapping
       THEN Raise(self, "ValueError", "SWX_ parameters do not match SWXR1_ parameters.")
       ELSE IF DOMAIN SWX_mapping # DOMAIN SWXR2_mapping
       THEN Raise(self, "ValueError", "SWX_ parameters do not match SWXR2_ parameters.")
       ELSE Ok(self, None)

\* add_swx_range with one slip, selected by variant
add_swx_range_variant(self, mjd_start, mjd_end, index, swx, swxp, frozen, variant) ==
    LET dct == get_prefix_mapping_component(self, "SWX_")
    IN IF index = None /\ DOMAIN dct = {}
       THEN Raise(self, "ValueError", "zero-size array to reduction operation maximum")
       ELSE
       LET idx == IF index # None THEN index
                  ELSE IF variant = "len_plus_one" THEN Cardinality(DOMAIN dct) + 1
                  ELSE SetMax(DOMAIN dct) + 1
           inverted == IF variant = "strict_bounds" THEN mjd_end <= mjd_start
                       ELSE mjd_end < mjd_start
           overwritten == [self EXCEPT !.par = [n \in DOMAIN @ |->
                              IF n = ParName("SWX_", idx)
                              THEN [value |-> swx, frozen |-> frozen] ELSE @[n]]]
       IN IF mjd_end # None /\ mjd_start # None /\ inverted
          THEN Raise(self, "ValueError", "Starting MJD is greater than ending MJD.")
          ELSE IF ~(mjd_end # None /\ mjd_start # None) /\ mjd_start # mjd_end
          THEN Raise(self, "ValueError", "Only one MJD bound is set.")
          ELSE IF idx \in DOMAIN dct
          THEN Raise(IF variant = "late_check" THEN overwritten ELSE self,
                     "ValueError", "Index is already in use in this model.")
          ELSE
          LET r1 == add_param(self, ParName("SWX_", idx), swx, frozen)
              r2 == Then(r1, LAMBDA s : add_param(s, ParName("SWXP_", idx), swxp, frozen))
              r3 == Then(r2, LAMBDA s : add_param(s, ParName("SWXR1_", idx), mjd_start, TRUE))
              r4 == IF variant = "no_swxr2" THEN r3
                    ELSE Then(r3, LAMBDA s : add_param(s, ParName("SWXR2_", idx), mjd_end, TRUE))
              r5 == IF variant = "no_setup" THEN r4 ELSE Then(r4, LAMBDA s : setup(s))
              r6 == Then(r5, LAMBDA s : validate(s))
          IN Then(r6, LAMBDA s : Ok(s, idx))

\* slip: setup() is not called
add_swx_range_no_setup(self, mjd_start, mjd_end, index, swx, swxp, frozen) ==
    add_swx_range_variant(self, mjd_start, mjd_end, index, swx, swxp, frozen, "no_setup")

\* slip: the SWXR2_ parameter is not created
add_swx_range_no_swxr2(self, mjd_start, mjd_end, index, swx, swxp, frozen) ==
    add_swx_range_variant(self, mjd_start, mjd_end, index, swx, swxp, frozen, "no_swxr2")

\* slip: the next index is the number of segments plus one
add_swx_range_len_plus_one(self, mjd_start, mjd_end, index, swx, swxp, frozen) ==
    add_swx_range_variant(self, mjd_start, mjd_end, index, swx, swxp, frozen, "len_plus_one")

\* slip: the index is checked after the existing SWX_ parameter was overwritten
add_swx_range_late_check(self, mjd_start, mjd_end, index, swx, swxp, frozen) ==
    add_swx_range_variant(self, mjd_start, mjd_end, index, swx, swxp, frozen, "late_check")

\* slip: mjd_end <= mjd_start is rejected
add_swx_range_strict_bounds(self, mjd_start, mjd_end, index, swx, swxp, frozen) ==
    add_swx_range_variant(self, mjd_start, mjd_end, index, swx, swxp, frozen, "strict_bounds")

add_swx_range(self, mjd_start, mjd_end, index, swx, swxp, frozen) ==
    LET dct == get_prefix_mapping_component(self, "SWX_")
    IN IF index = None /\ DOMAIN dct = {}
       THEN Raise(self, "ValueError", "zero-size array to reduction operation maximum")
       ELSE
       LET idx == IF index = None THEN SetMax(DOMAIN dct) + 1 ELSE index
       IN IF mjd_end # None /\ mjd_start # None /\ mjd_end < mjd_start
          THEN Raise(self, "ValueError", "Starting MJD is greater than ending MJD.")
          ELSE IF ~(mjd_end # None /\ mjd_start # None) /\ mjd_start # mjd_end
          THEN Raise(self, "ValueError", "Only one MJD bound is set.")
          ELSE IF idx \in DOMAIN dct
          THEN Raise(self, "ValueError", "Index is already in use in this model.")
          ELSE
          LET r1 == add_param(self, ParName("SWX_", idx), swx, frozen)
              r2 == Then(r1, LAMBDA s : add_param(s, ParName("SWXP_", idx), swxp, frozen))
              r3 == Then(r2, LAMBDA s : add_param(s, ParName("SWXR1_", idx), mjd_start, TRUE))
              r4 == Then(r3, LAMBDA s : add_param(s, ParName("SWXR2_", idx), mjd_end, TRUE))
              r5 == Then(r4, LAMBDA s : setup(s))
              r6 == Then(r5, LAMBDA s : validate(s))
          IN Then(r6, LAMBDA s : Ok(s, idx))

\* -------------------------------------------------- Python arguments
\* a number or list passed as the index of remove_swx_range:
\* an int i, a float h/2, a str, or a list of ints
IntArg(i) == [type |-> "int", v |-> <<i>>]
FloatArg(h) == [type |-> "float", v |-> <<h>>]
StrArg == [type |-> "str", v |-> <<>>]
ListArg(s) == [type |-> "list", v |-> s]

\* int(index): a float is truncated towards zero
PyInt(x) == IF x.type = "float" THEN x.v[1] \div 2 ELSE x.v[1]

RECURSIVE remove_prefixes(_, _, _)
\* for prefix in ["SWX_", "SWXP_", "SWXR1_", "SWXR2_"]: self.remove_param(prefix + index_rf)
remove_prefixes(self, index_rf, prefixes) ==
    IF prefixes = <<>> THEN Ok(self, None)
    ELSE Then(remove_param(self, ParName(Head(prefixes), index_rf)),
              LAMBDA s : remove_prefixes(s, index_rf, Tail(prefixes)))

RECURSIVE remove_indices(_, _, _)
\* for index in indices: index_rf = f"{int(index):04d}"; for prefix in prefixes: ...
remove_indices(self, indices, prefixes) ==
    IF indices = <<>> THEN Ok(self, None)
    ELSE Then(remove_prefixes(self, PyInt(Head(indices)), prefixes),
              LAMBDA s : remove_indices(s, Tail(indices), prefixes))

\* slip: of a list, only the first index is removed
remove_swx_range_first_only(self, index) ==
    IF index.type \in {"int", "float"}
    THEN Then(remove_indices(self, <<index>>, Prefixes), LAMBDA s : validate(s))
    ELSE IF index.type = "list"
    THEN Then(remove_indices(self, <<IntArg(index.v[1])>>, Prefixes),
              LAMBDA s : validate(s))
    ELSE Raise(self, "TypeError", "index must be a float, int, list, or array")

\* slip: the SWXP_ parameter of the index is left behind
remove_swx_range_keep_swxp(self, index) ==
    IF index.type \in {"int", "float"}
    THEN Then(remove_indices(self, <<index>>, <<"SWX_", "SWXR1_", "SWXR2_">>),
              LAMBDA s : validate(s))
    ELSE IF index.type = "list"
    THEN Then(remove_indices(self, [k \in DOMAIN index.v |-> IntArg(index.v[k])],
                             <<"SWX_", "SWXR1_", "SWXR2_">>),
              LAMBDA s : validate(s))
    ELSE Raise(self, "TypeError", "index must be a float, int, list, or array")

\* slip: no type test, int() is applied to whatever is passed
remove_swx_range_untyped(self, index) ==
    IF index.type \in {"int", "float"}
    THEN Then(remove_indices(self, <<index>>, Prefixes), LAMBDA s : validate(s))
    ELSE IF index.type = "list"
    THEN Then(remove_indices(self, [k \in DOMAIN index.v |-> IntArg(index.v[k])], Prefixes),
              LAMBDA s : validate(s))
    ELSE Raise(self, "ValueError", "invalid literal for int() with base 10")

\* slip-free variant: a list with an index that is not registered is
\* refused before anything is removed
remove_swx_range_all_or_nothing(self, index) ==
    IF index.type \in {"int", "float"}
    THEN Then(remove_indices(self, <<index>>, Prefixes), LAMBDA s : validate(s))
    ELSE IF index.type = "list"
    THEN IF \E k \in DOMAIN index.v :
                \/ ParName("SWX_", index.v[k]) \notin Range(self.params)
                \/ \E j \in 1..(k - 1) : index.v[j] = index.v[k]
         THEN Raise(self, "ValueError", "not listed")
         ELSE Then(remove_indices(self, [k \in DOMAIN index.v |-> IntArg(index.v[k])], Prefixes),
                   LAMBDA s : validate(s))
    ELSE Raise(self, "TypeError", "index must be a float, int, list, or array")

remove_swx_range(self, index) ==
    IF index.type \in {"int", "float"}
    THEN Then(remove_indices(self, <<index>>, Prefixes), LAMBDA s : validate(s))
    ELSE IF index.type = "list"
    THEN Then(remove_indices(self, [k \in DOMAIN index.v |-> IntArg(index.v[k])], Prefixes),
              LAMBDA s : validate(s))
    ELSE Raise(self, "TypeError", "index must be a float, int, list, or array")

RECURSIVE get_indices_loop(_)
\* for p in self.params: if "SWX_" in p: inds.append(int(p.split("_")[-1]))
\* ("SWX_" is a substring of the SWX_ names only)
get_indices_loop(names) ==
    IF names = <<>> THEN <<>>
    ELSE (IF Head(names)[1] = "SWX_" THEN <<Head(names)[2]>> ELSE <<>>)
         \o get_indices_loop(Tail(names))

\* slip: every parameter of the four families is collected
get_indices_every_family(self) ==
    Ok(self, [k \in DOMAIN self.params |-> self.params[k][2]])

get_indices(self) == Ok(self, get_indices_loop(self.params))

\* ------------------------------------------------ DDGR: _solve_kepler
\* astropy.constants G and c, in units in which both are 1
c_G == 1
c_c == 1
\* A float is a fixed-point integer: a length or semi-major axis x is kept
\* as x * LenScale, a dimensionless factor r as r * RatioScale, an angular
\* frequency n as n * FreqScale.
LenScale == 5
RatioScale == 1000
FreqScale == 1400
\* the default fractional tolerance ARTOL is 1 / ARTOL_DEN
ARTOL_DEN == 200
\* passes of the while loop after which the model gives up
MaxPasses == 4
MaxBins == 2
MaxDmxIndex == 3
MaxBinToas == 3

KeplerMasses == 1..MaxMass
KeplerFreqs == 1..MaxFreq
\* tolerances passed as ARTOL: a loose one and the default
ARTOLValues == {20, ARTOL_DEN}

\* np.fabs
fabs(x) == IF x < 0 THEN -x ELSE x

RECURSIVE cbrt_search(_, _, _)
cbrt_search(v, lo, hi) ==
    IF lo = hi THEN lo
    ELSE LET mid == (lo + hi + 1) \div 2
         IN IF mid * mid * mid <= v THEN cbrt_search(v, mid, hi)
            ELSE cbrt_search(v, lo, mid - 1)

\* v ** (1.0 / 3), rounded down
cbrt(v) == cbrt_search(v, 0, 1290)

\* r ** (2.0 / 3) for a factor r
pow23(r) == cbrt(r * r * RatioScale)

\* slip: + 9 for - 9 in the mass term
kepler_iterate_plus_nine(M1, M2, MTOT, arr0, arr) ==
    LET mass_term == ((M1 * M2 * RatioScale) \div (MTOT * MTOT)) + 9 * RatioScale
        factor == RatioScale
                  + ((mass_term * (c_G * MTOT * LenScale)) \div (2 * arr * c_c * c_c))
    IN (arr0 * pow23(factor)) \div RatioScale

\* arr0 * (1 + (M1 * M2 / MTOT**2 - 9) * (c.G * MTOT / (2 * arr * c.c**2))) ** (2.0 / 3)
kepler_iterate(M1, M2, MTOT, arr0, arr) ==
    LET mass_term == ((M1 * M2 * RatioScale) \div (MTOT * MTOT)) - 9 * RatioScale
        factor == RatioScale
                  + ((mass_term * (c_G * MTOT * LenScale)) \div (2 * arr * c_c * c_c))
    IN (arr0 * pow23(factor)) \div RatioScale

\* _solve_kepler up to its while: MTOT, arr0, arr = arr0, arr_old = arr and
\* the first value of arr; the record holds the locals
kepler_enter(M1, M2, n, ARTOL) ==
    LET MTOT == M1 + M2
        arr0 == cbrt((c_G * MTOT * FreqScale * FreqScale
                      * LenScale * LenScale * LenScale) \div (n * n))
    IN [pc |-> "while", M1 |-> M1, M2 |-> M2, n |-> n, ARTOL |-> ARTOL,
        MTOT |-> MTOT, arr0 |-> arr0, arr_old |-> arr0,
        arr |-> kepler_iterate(M1, M2, MTOT, arr0, arr0),
        ar |-> None, passes |-> 0, ret |-> None]

\* np.fabs((arr - arr_old) / arr) > ARTOL
kepler_test(st) == fabs(st.arr - st.arr_old) * st.ARTOL > fabs(st.arr)

\* the pass as intended: the new value is stored into arr
kepler_pass_assign(st) ==
    [st EXCEPT !.arr_old = st.arr,
               !.arr = kepler_iterate(st.M1, st.M2, st.MTOT, st.arr0, st.arr),
               !.passes = @ + 1]

\* one pass of the while body: arr_old = arr; ar = arr0 * (...)
kepler_pass(st) ==
    [st EXCEPT !.arr_old = st.arr,
               !.ar = kepler_iterate(st.M1, st.M2, st.MTOT, st.arr0, st.arr),
               !.passes = @ + 1]

\* return arr0.decompose(), arr.decompose()
kepler_return(st) == [st EXCEPT !.pc = "return", !.ret = <<st.arr0, st.arr>>]

RECURSIVE solve_kepler_loop(_)
solve_kepler_loop(st) ==
    IF kepler_test(st) /\ st.passes < MaxPasses
    THEN solve_kepler_loop(kepler_pass(st))
    ELSE kepler_return(st)

\* _solve_kepler(M1, M2, n, ARTOL): the locals at the return
solve_kepler(M1, M2, n, ARTOL) == solve_kepler_loop(kepler_enter(M1, M2, n, ARTOL))

\* ------------------------------------------------------ DDGR: DDGRmodel
\* 2 * np.pi, in the model's units of time
TwoPi == 6
\* orbital periods: n = 2 * pi / PB runs over KeplerFreqs
PBValues == {TwoPi, TwoPi \div 2}
M2Values == {1, 2}
MTOTValues == {3, 4}
ECCValues == {1, 2}
A1Values == {1}
DotValues == {0, 1}
\* tt0, the time since T0 at which ecc() and a1() are evaluated
tt0 == 1

\* a closed-form expression, kept symbolic: its name and operand values
Expr(name, operands) == <<name>> \o operands

\* DDmodel.ecc(): ECC + tt0 * EDOT
ecc(self) == self.ECC + tt0 * self.EDOT

\* DDmodel.a1(): A1 + tt0 * A1DOT
a1(self) == self.A1 + tt0 * self.A1DOT

\* DDGRmodel.fe
fe(self) == Expr("fe", <<ecc(self)>>)

\* the parameters _updatePK waits for
Required == {"PB", "ECC", "M2", "MTOT", "A1"}

\* DDGRmodel._updatePK
updatePK(self) ==
    IF \E p \in Required : self[p] = None THEN self
    ELSE LET M1 == self.MTOT - self.M2
             n == TwoPi \div self.PB
             sol == solve_kepler(M1, self.M2, n, ARTOL_DEN)
             ar == (sol.arr * self.M2) \div self.MTOT
             DR == Expr("DR", <<self.MTOT, sol.arr, M1, self.M2>>)
             DTH == Expr("DTH", <<self.MTOT, sol.arr, M1, self.M2>>)
         IN [self EXCEPT
               !.M1 = M1, !.n = n, !.arr = sol.arr, !.ar = ar,
               !.SINI = Expr("SINI", <<a1(self), ar>>),
               !.GAMMA = Expr("GAMMA", <<ecc(self), self.M2, M1, n, sol.arr0, self.MTOT>>),
               !.PBDOT = Expr("PBDOT", <<n, M1, self.M2, self.MTOT, fe(self)>>),
               !.OMDOT = Expr("OMDOT", <<n, ecc(self), M1, self.M2>>),
               !.k = Expr("k", <<self.MTOT, sol.arr0, ecc(self)>>),
               !.DR = DR,
               !.er = Expr("er", <<ecc(self), DR>>),
               !.DTH = DTH,
               !.eth = Expr("eth", <<ecc(self), DTH>>)]

PB_setter(self, val) == updatePK([self EXCEPT !.PB = val])
MTOT_setter(self, val) == updatePK([self EXCEPT !.MTOT = val])
M2_setter(self, val) == updatePK([self EXCEPT !.M2 = val])
A1_setter(self, val) == updatePK([self EXCEPT !.A1 = val])
ECC_setter(self, val) == updatePK([self EXCEPT !.ECC = val])
A1DOT_setter(self, val) == updatePK([self EXCEPT !.A1DOT = val])
\* slip: the setter stores the value and does not call _updatePK
EDOT_setter_no_update(self, val) == [self EXCEPT !.EDOT = val]
EDOT_setter(self, val) == updatePK([self EXCEPT !.EDOT = val])

\* the setters of the derived quantities: log.debug(...) and nothing else
\* slip: the value is stored
SINI_setter_store(self, val) == [self EXCEPT !.SINI = val]
SINI_setter(self, val) == self
PBDOT_setter(self, val) == self
OMDOT_setter(self, val) == self
GAMMA_setter(self, val) == self
DR_setter(self, val) == self
DTH_setter(self, val) == self

\* the property getters of the derived quantities
DerivedOnly == {"SINI", "PBDOT", "OMDOT", "GAMMA", "DR", "DTH"}
read(self, name) == IF name = "OMDOT" THEN self.XOMDOT ELSE self[name]

\* the d_<X>_d_<suffix> methods the class defines
PartialMethods ==
    { <<"k", s>> : s \in {"MTOT", "ECC", "PB"} }
    \cup { <<"SINI", s>> : s \in {"MTOT", "M2", "PB", "A1"} }
    \cup { <<"GAMMA", s>> : s \in {"ECC", "MTOT", "M2", "PB"} }
    \cup { <<"PBDOT", s>> : s \in {"MTOT", "M2", "ECC", "PB", "XPBDOT"} }
    \cup { <<"DR", s>> : s \in {"MTOT", "M2", "PB"} }
    \cup { <<"DTH", s>> : s \in {"M", "M2", "PB"} }

\* slip-free naming: d_DTH_d_MTOT exists as well
d_X_d_par_with_MTOT(self, X, parname) ==
    IF <<X, parname>> \in PartialMethods \cup {<<"DTH", "MTOT">>}
    THEN Expr("closed form", <<X, parname, self.n, self.PB, self.MTOT, self.M2, ecc(self)>>)
    ELSE Expr("zeros", <<tt0>>)

\* d_k_d_par, d_SINI_d_par, d_GAMMA_d_par, d_PBDOT_d_par, d_DR_d_par and
\* d_DTH_d_par: getattr(self, f"d_{X}_d_{par}")(), a closed form that is kept
\* opaque, or on AttributeError np.zeros(len(self.tt0))
d_X_d_par(self, X, parname) ==
    IF <<X, parname>> \in PartialMethods
    THEN Expr("closed form", <<X, parname, self.n, self.PB, self.MTOT, self.M2, ecc(self)>>)
    ELSE Expr("zeros", <<tt0>>)

\* the object while __init__ runs, before set_param_values()
DDGRblank ==
    [PB |-> None, ECC |-> None, M2 |-> None, MTOT |-> None, A1 |-> None,
     A1DOT |-> 0, EDOT |-> 0, XOMDOT |-> 0,
     M1 |-> None, n |-> None, arr |-> None, ar |-> None, SINI |-> None,
     GAMMA |-> None, PBDOT |-> None, OMDOT |-> None, k |-> None, DR |-> None,
     er |-> None, DTH |-> None, eth |-> None]

\* DDGRmodel.__init__: set_param_values() assigns every default in turn
DDGRmodel ==
    A1_setter(MTOT_setter(M2_setter(ECC_setter(PB_setter(DDGRblank,
        TwoPi), 1), 1), 3), 1)

\* SolarWindDispersion.__init__: NE_SW = 0.0, SWP = 2.0, SWM = 0.0
SolarWindDispersion == [NE_SW |-> 0, SWP |-> 2, SWM |-> 0]

\* the component before __init__ has added its first range
Empty ==
    [params |-> <<>>, par |-> <<>>, deriv_funcs |-> {}, swx_toas_selector |-> FALSE,
     setup_run |-> FALSE]

\* __init__: add_swx_range(None, None, swx=0, swxp=2, frozen=False, index=1)
Constructed == add_swx_range(Empty, None, None, 1, 0, 2, FALSE).self

Init ==
    /\ params = Constructed.params
    /\ par = Constructed.par
    /\ deriv_funcs = Constructed.deriv_funcs
    /\ swx_toas_selector = Constructed.swx_toas_selector
    /\ raw_ops = 0
    /\ ddgr = DDGRmodel
    /\ kep = [pc |-> "idle"]
    /\ sw = SolarWindDispersion
    /\ dmx = <<>>
    /\ binning = [pc |-> "idle"]
    /\ last = [op |-> "__init__", arg |-> <<>>, exc |-> "ok", msg |-> "", ret |-> None]

Commit(op, arg, r) ==
    /\ params' = r.self.params
    /\ par' = r.self.par
    /\ deriv_funcs' = r.self.deriv_funcs
    /\ swx_toas_selector' = r.self.swx_toas_selector
    /\ raw_ops' = raw_ops
    /\ ddgr' = ddgr
    /\ kep' = kep
    /\ sw' = sw
    /\ UNCHANGED <<dmx, binning>>
    /\ last' = [op |-> op, arg |-> arg, exc |-> r.exc, msg |-> r.msg, ret |-> r.ret,
                setup_run |-> r.self.setup_run]

\* the model stops at MaxSegs segments and at index MaxIndex
WithinBounds(self) ==
    /\ Cardinality(DOMAIN get_prefix_mapping_component(self, "SWX_")) <= MaxSegs
    /\ \A n \in Range(self.params) : n[2] <= MaxIndex

AddSwxRange ==
    \E bounds \in BoundPairs, index \in IndexArgs, v \in ValueArgs :
        LET r == add_swx_range(Self, bounds[1], bounds[2], index, v.swx, v.swxp, v.frozen)
        IN /\ WithinBounds(r.self)
           /\ Commit("add_swx_range", <<index>>, r)

RemoveArgs ==
    { IntArg(i) : i \in Indices }
    \cup { ListArg(<<i, j>>) : i \in Indices, j \in Indices }

RemoveSwxRange ==
    \E index \in RemoveArgs :
        Commit("remove_swx_range", index.v, remove_swx_range(Self, index))

GetIndices == Commit("get_indices", <<>>, get_indices(Self))

Validate == Commit("validate", <<>>, validate(Self))

\* ------------------------------------------------------- TOA queries
\* a TOA table is the sequence of its MJDs; toas[v] for an index list v
ToaTables == UNION { [1..n -> ToaMJDs] : n \in 0..MaxToas }

\* slip: the end of the interval is included
count_in_range_closed(b, e, mjds) ==
    Cardinality({ k \in DOMAIN mjds : b <= mjds[k] /\ mjds[k] <= e })

\* np.sum((b <= mjds) & (mjds < e))
count_in_range(b, e, mjds) == Cardinality({ k \in DOMAIN mjds : b <= mjds[k] /\ mjds[k] < e })

RECURSIVE validate_toas_loop(_, _, _, _)
\* for k in SWXR1_mapping.keys(): ...
validate_toas_loop(self, keys, toas, bad_parameters) ==
    LET SWX_mapping == get_prefix_mapping_component(self, "SWX_")
        SWXR2_mapping == get_prefix_mapping_component(self, "SWXR2_")
    IN IF keys = <<>> THEN Ok(self, bad_parameters)
       ELSE LET k == Head(keys)
            IN IF k \notin DOMAIN SWX_mapping
               THEN Raise(self, "KeyError", "SWX_mapping[k]")
               ELSE IF self.par[SWX_mapping[k]].frozen
               THEN validate_toas_loop(self, Tail(keys), toas, bad_parameters)
               ELSE IF self.par[ParName("SWXR1_", k)].value = None
               THEN Raise(self, "AttributeError", "'NoneType' object has no attribute 'mjd'")
               ELSE IF k \notin DOMAIN SWXR2_mapping
               THEN Raise(self, "KeyError", "SWXR2_mapping[k]")
               ELSE IF self.par[SWXR2_mapping[k]].value = None
               THEN Raise(self, "AttributeError", "'NoneType' object has no attribute 'mjd'")
               ELSE LET b == self.par[ParName("SWXR1_", k)].value
                        e == self.par[SWXR2_mapping[k]].value
                        n == count_in_range(b, e, toas)
                    IN validate_toas_loop(self, Tail(keys), toas,
                          IF n = 0 THEN Append(bad_parameters, SWX_mapping[k])
                          ELSE bad_parameters)

validate_toas(self, toas) ==
    LET SWXR1_mapping == get_prefix_mapping_component(self, "SWXR1_")
        r == validate_toas_loop(self, SortedSeq(DOMAIN SWXR1_mapping), toas, <<>>)
    IN IF r.exc # "ok" THEN r
       ELSE IF r.ret # <<>> THEN [Raise(self, "MissingTOAs", "") EXCEPT !.ret = r.ret]
       ELSE Ok(self, <<>>)

\* ...R1_/R2_ .quantity.mjd of a segment, both set
HasBounds(self, k) ==
    /\ self.par[ParName("SWXR1_", k)].value # None
    /\ self.par[ParName("SWXR2_", k)].value # None

RECURSIVE select_range(_, _, _, _)
\* np.where(lo <= col < hi)[0]: the 0-based positions, ascending
select_range(col, lo, hi, pos) ==
    IF col = <<>> THEN <<>>
    ELSE (IF lo <= Head(col) /\ Head(col) < hi THEN <<pos>> ELSE <<>>)
         \o select_range(Tail(col), lo, hi, pos + 1)

\* TOASelect.get_select_index(condition, col): name -> index list
get_select_index(condition, col) ==
    [k \in DOMAIN condition |-> select_range(col, condition[k][1], condition[k][2], 0)]

\* the Sun-pulsar geometry at a TOA for power-law index p, as an opaque
\* positive number that tells TOAs and power-law indices apart
solar_wind_geometry(t, p) ==
    IF p > 1 THEN Ok(None, 10 * t + p)
    ELSE Raise(None, "NotImplementedError",
               "Solar Dispersion Delay not implemented for power-law index p <= 1")

RECURSIVE swx_dm_loop(_, _, _, _, _)
\* slip: dm[v] = geometry * ne_sw
swx_dm_loop_assign(self, keys, select_idx, toas, dm) ==
    IF keys = <<>> THEN Ok(self, dm)
    ELSE LET k == ParName("SWX_", Head(keys))
             v == select_idx[k]
             ne_sw == self.par[k].value
             p == self.par[ParName("SWXP_", Head(keys))].value
         IN IF Len(v) = 0 THEN swx_dm_loop(self, Tail(keys), select_idx, toas, dm)
            ELSE IF solar_wind_geometry(toas[v[1] + 1], p).exc # "ok"
            THEN Raise(self, "NotImplementedError", solar_wind_geometry(toas[v[1] + 1], p).msg)
            ELSE swx_dm_loop(self, Tail(keys), select_idx, toas,
                    [n \in DOMAIN dm |->
                        IF (n - 1) \in Range(v)
                        THEN solar_wind_geometry(toas[n], p).ret * ne_sw
                        ELSE dm[n]])

\* for k, v in select_idx.items(): if len(v) > 0: dm[v] += geometry * ne_sw
swx_dm_loop(self, keys, select_idx, toas, dm) ==
    IF keys = <<>> THEN Ok(self, dm)
    ELSE LET k == ParName("SWX_", Head(keys))
             v == select_idx[k]
             ne_sw == self.par[k].value
             p == self.par[ParName("SWXP_", Head(keys))].value
         IN IF Len(v) = 0 THEN swx_dm_loop(self, Tail(keys), select_idx, toas, dm)
            ELSE IF solar_wind_geometry(toas[v[1] + 1], p).exc # "ok"
            THEN Raise(self, "NotImplementedError", solar_wind_geometry(toas[v[1] + 1], p).msg)
            ELSE swx_dm_loop(self, Tail(keys), select_idx, toas,
                    [n \in DOMAIN dm |->
                        IF (n - 1) \in Range(v)
                        THEN dm[n] + solar_wind_geometry(toas[n], p).ret * ne_sw
                        ELSE dm[n]])

\* condition[SWX_mapping[epoch_ind]] = (r1.mjd, r2.mjd)
swx_condition(self) ==
    [k \in { ParName("SWX_", e) : e \in DOMAIN get_prefix_mapping_component(self, "SWX_") } |->
        <<self.par[ParName("SWXR1_", k[2])].value, self.par[ParName("SWXR2_", k[2])].value>>]

swx_dm(self, toas) ==
    LET self1 == [self EXCEPT !.swx_toas_selector = TRUE]
        SWX_mapping == get_prefix_mapping_component(self, "SWX_")
        SWXP_mapping == get_prefix_mapping_component(self, "SWXP_")
        SWXR1_mapping == get_prefix_mapping_component(self, "SWXR1_")
        SWXR2_mapping == get_prefix_mapping_component(self, "SWXR2_")
        keys == SortedSeq(DOMAIN SWX_mapping)
        \* the first segment at which building the condition fails
        failing == { n \in DOMAIN keys :
                       \/ keys[n] \notin DOMAIN SWXR1_mapping
                       \/ keys[n] \notin DOMAIN SWXR2_mapping
                       \/ ~HasBounds(self, keys[n])
                       \/ keys[n] \notin DOMAIN SWXP_mapping }
    IN IF failing # {}
       THEN LET n == CHOOSE m \in failing : \A o \in failing : m <= o
            IN IF keys[n] \notin DOMAIN SWXR1_mapping \/ keys[n] \notin DOMAIN SWXR2_mapping
               THEN Raise(self1, "KeyError", "SWXR mapping")
               ELSE IF ~HasBounds(self, keys[n])
               THEN Raise(self1, "AttributeError", "'NoneType' object has no attribute 'mjd'")
               ELSE Raise(self1, "KeyError", "SWXP_mapping")
       ELSE LET select_idx == get_select_index(swx_condition(self), toas)
            IN swx_dm_loop(self1, keys, select_idx, toas, [n \in DOMAIN toas |-> 0])

\* TimingModel.get_prefix_mapping(prefix): ValueError when no parameter has the prefix
get_prefix_mapping(self, prefix) ==
    IF DOMAIN get_prefix_mapping_component(self, prefix) = {}
    THEN Raise(self, "ValueError", "Can not find prefix")
    ELSE Ok(self, get_prefix_mapping_component(self, prefix))

\* pint.utils.get_prefix_timeranges(model, "SWX"): the arrays indices, r1, r2,
\* left at 0 for a segment with an unset bound
get_prefix_timeranges(self) ==
    LET m == get_prefix_mapping(self, "SWX_")
    IN IF m.exc # "ok" THEN m
       ELSE LET keys == SortedSeq(DOMAIN m.ret)
            IN IF \E j \in DOMAIN keys :
                      \/ ParName("SWXR1_", keys[j]) \notin DOMAIN self.par
                      \/ ParName("SWXR2_", keys[j]) \notin DOMAIN self.par
               THEN Raise(self, "AttributeError", "no attribute SWXR")
               ELSE Ok(self,
                      [indices |-> [j \in DOMAIN keys |->
                                      IF HasBounds(self, keys[j]) THEN keys[j] ELSE 0],
                       r1 |-> [j \in DOMAIN keys |->
                                 IF HasBounds(self, keys[j])
                                 THEN self.par[ParName("SWXR1_", keys[j])].value ELSE 0],
                       r2 |-> [j \in DOMAIN keys |->
                                 IF HasBounds(self, keys[j])
                                 THEN self.par[ParName("SWXR2_", keys[j])].value ELSE 0]])

RECURSIVE where_in_ranges(_, _, _, _)
\* np.where((t >= r1) & (t < r2))[0]: the 0-based positions, ascending
where_in_ranges(t, r1, r2, pos) ==
    IF r1 = <<>> THEN <<>>
    ELSE (IF t >= Head(r1) /\ t < Head(r2) THEN <<pos>> ELSE <<>>)
         \o where_in_ranges(t, Tail(r1), Tail(r2), pos + 1)

\* pint.utils.find_prefix_bytime(model, "SWX", t): one index as an int,
\* otherwise the array of the matching indices
find_prefix_bytime(self, t) ==
    LET tr == get_prefix_timeranges(self)
    IN IF tr.exc # "ok" THEN tr
       ELSE LET matches == where_in_ranges(t, tr.ret.r1, tr.ret.r2, 0)
            IN IF Len(matches) = 1
               THEN Ok(self, [type |-> "int", v |-> <<tr.ret.indices[matches[1] + 1]>>])
               ELSE Ok(self, [type |-> "array",
                              v |-> [n \in DOMAIN matches |-> tr.ret.indices[matches[n] + 1]]])

SwxDm ==
    \E toas \in ToaTables : Commit("swx_dm", <<>>, swx_dm(Self, toas))

FindPrefixBytime ==
    \E t \in ToaMJDs : Commit("find_prefix_bytime", <<t>>, find_prefix_bytime(Self, t))

ValidateToas ==
    \E toas \in ToaTables : Commit("validate_toas", <<>>, validate_toas(Self, toas))

Next ==
    \/ AddSwxRange
    \/ RemoveSwxRange
    \/ GetIndices
    \/ Validate

Spec == Init /\ [][Next]_vars

\* ------------------------------------------- segments under TOA queries
\* the segments are laid out by accepted add_swx_range and remove_swx_range
\* calls, of which only the outcome is kept, and queried with TOA tables
LayoutAdd ==
    \E bounds \in { b \in BoundPairs : ValidBounds(b[1], b[2]) }, index \in Indices, v \in ValueArgs :
        LET r == add_swx_range(Self, bounds[1], bounds[2], index, v.swx, v.swxp, v.frozen)
        IN /\ WithinBounds(r.self)
           /\ Commit("add_swx_range", <<>>, [r EXCEPT !.msg = "", !.ret = None])

LayoutRemove ==
    \E index \in Indices :
        Commit("remove_swx_range", <<>>,
               [remove_swx_range(Self, IntArg(index)) EXCEPT !.msg = "", !.ret = None])

NextToas ==
    \/ LayoutAdd
    \/ LayoutRemove
    \/ ValidateToas
    \/ SwxDm
    \/ FindPrefixBytime

SpecToas == Init /\ [][NextToas]_vars

\* ------------------------------------- the caller edits the parameters
\* a prefixParameter built by the caller, with a value of its family
RawValue(prefix) ==
    IF prefix = "SWX_" THEN 0
    ELSE IF prefix = "SWXP_" THEN 2
    ELSE IF prefix = "SWXR1_" THEN 1
    ELSE MaxMJD

RawNames == { ParName(Prefixes[k], i) : k \in DOMAIN Prefixes, i \in Indices }

CommitRaw(op, name, r) ==
    /\ raw_ops < MaxRawOps
    /\ params' = r.self.params
    /\ par' = r.self.par
    /\ deriv_funcs' = r.self.deriv_funcs
    /\ swx_toas_selector' = r.self.swx_toas_selector
    /\ raw_ops' = raw_ops + 1
    /\ ddgr' = ddgr
    /\ kep' = kep
    /\ sw' = sw
    /\ UNCHANGED <<dmx, binning>>
    /\ last' = [op |-> op, arg |-> name, exc |-> r.exc, msg |-> r.msg, ret |-> r.ret]

AddParam ==
    \E name \in RawNames :
        CommitRaw("add_param", name, add_param(Self, name, RawValue(name[1]), TRUE))

RemoveParam ==
    \E name \in RawNames :
        CommitRaw("remove_param", name, remove_param(Self, name))

NextRaw ==
    \/ AddParam
    \/ RemoveParam
    \/ Validate

SpecRaw == Init /\ [][NextRaw]_vars

\* ------------------------------------------------------------ split_swx
\* slip: the end of the split segment is not moved to time
split_swx_keep_end(self, time) ==
    LET m == get_prefix_mapping(self, "SWX_")
    IN IF m.exc # "ok" THEN Raise(self, "RuntimeError", "No SWX values in model!")
       ELSE
       LET swx_epochs == SortedSeq(DOMAIN m.ret)
       IN IF \E j \in DOMAIN swx_epochs :
                \/ ParName("SWXR1_", swx_epochs[j]) \notin DOMAIN self.par
                \/ ParName("SWXR2_", swx_epochs[j]) \notin DOMAIN self.par
          THEN Raise(self, "AttributeError", "no attribute SWXR")
          ELSE IF \E j \in DOMAIN swx_epochs : ~HasBounds(self, swx_epochs[j])
          THEN Raise(self, "TypeError", "float() argument must be a string or a real number")
          ELSE
          LET SWX_R1 == [j \in DOMAIN swx_epochs |-> self.par[ParName("SWXR1_", swx_epochs[j])].value]
              SWX_R2 == [j \in DOMAIN swx_epochs |-> self.par[ParName("SWXR2_", swx_epochs[j])].value]
              ii == { j \in DOMAIN swx_epochs : time > SWX_R1[j] /\ time < SWX_R2[j] }
          IN IF ii = {} THEN Raise(self, "ValueError", "Time not in any SWX bins")
             ELSE
             LET i0 == CHOOSE j \in ii : \A o \in ii : j <= o
                 index == swx_epochs[i0]
                 t2 == SWX_R2[i0]
                 self1 == self
                 r == add_swx_range(self1, time, t2, None,
                                    self.par[ParName("SWX_", index)].value, 2,
                                    self.par[ParName("SWX_", index)].frozen)
             IN IF r.exc # "ok" THEN r ELSE Ok(r.self, <<index, r.ret>>)

\* pint.utils.split_swx(model, time); add_swx_range is called without swxp,
\* which is then its default 2
split_swx(self, time) ==
    LET m == get_prefix_mapping(self, "SWX_")
    IN IF m.exc # "ok" THEN Raise(self, "RuntimeError", "No SWX values in model!")
       ELSE
       LET swx_epochs == SortedSeq(DOMAIN m.ret)
       IN IF \E j \in DOMAIN swx_epochs :
                \/ ParName("SWXR1_", swx_epochs[j]) \notin DOMAIN self.par
                \/ ParName("SWXR2_", swx_epochs[j]) \notin DOMAIN self.par
          THEN Raise(self, "AttributeError", "no attribute SWXR")
          ELSE IF \E j \in DOMAIN swx_epochs : ~HasBounds(self, swx_epochs[j])
          THEN Raise(self, "TypeError", "float() argument must be a string or a real number")
          ELSE
          LET SWX_R1 == [j \in DOMAIN swx_epochs |-> self.par[ParName("SWXR1_", swx_epochs[j])].value]
              SWX_R2 == [j \in DOMAIN swx_epochs |-> self.par[ParName("SWXR2_", swx_epochs[j])].value]
              ii == { j \in DOMAIN swx_epochs : time > SWX_R1[j] /\ time < SWX_R2[j] }
          IN IF ii = {} THEN Raise(self, "ValueError", "Time not in any SWX bins")
             ELSE
             LET i0 == CHOOSE j \in ii : \A o \in ii : j <= o
                 index == swx_epochs[i0]
                 t2 == SWX_R2[i0]
                 self1 == [self EXCEPT !.par[ParName("SWXR2_", index)].value = time]
                 r == add_swx_range(self1, time, t2, None,
                                    self.par[ParName("SWX_", index)].value, 2,
                                    self.par[ParName("SWX_", index)].frozen)
             IN IF r.exc # "ok" THEN r ELSE Ok(r.self, <<index, r.ret>>)

\* the times at which a segment is split
SplitTimes == 1..MaxMJD

\* split_swx(model, time); last keeps the component as it was before the call
SplitSwx ==
    \E time \in SplitTimes :
        LET r == split_swx(Self, time)
        IN /\ WithinBounds(r.self)
           /\ Commit("split_swx", [time |-> time, before |-> Self], r)

NextSplit ==
    \/ LayoutAdd
    \/ LayoutRemove
    \/ SplitSwx

SpecSplit == Init /\ [][NextSplit]_vars

\* ------------------------------------------------ setup() then validate()
\* setup() followed by validate(), as TimingModel does after its components
\* were changed; last keeps the component as it was before the calls
SetupThenValidate ==
    Commit("setup_validate", [before |-> Self],
           Then(setup(Self), LAMBDA s : validate(s)))

NextSetup ==
    \/ AddParam
    \/ RemoveParam
    \/ SetupThenValidate

SpecSetup == Init /\ [][NextSetup]_vars

\* ------------------------------------------- remove_swx_range: argument types
\* a float h/2 for each index and each value halfway to the next index
FloatArgs == { FloatArg(h) : h \in 2..(2 * MaxIndex + 1) }
\* an int, a float or a str passed as the index
TypedArgs == { IntArg(i) : i \in Indices } \cup FloatArgs \cup {StrArg}

\* remove_swx_range(index); last keeps the component as it was before the call
RemoveSwxRangeTyped ==
    \E index \in TypedArgs :
        Commit("remove_swx_range", [index |-> index, before |-> Self],
               remove_swx_range(Self, index))

NextTypes == LayoutAdd \/ RemoveSwxRangeTyped

SpecTypes == Init /\ [][NextTypes]_vars

\* ------------------------------- SolarWindDispersion and the scaled variant
\* np.inf
Inf == 999999
\* np.nan, the product of np.inf and 0
NaN == -999999
\* values of the power-law index: below, at and above the limit p > 1
PValues == {0, 1, 2, 3}
\* values of the model selector SWM: the two models and an unknown one
SWMValues == {0, 1, 2}
\* values of the amplitudes NE_SW and SWDMMAX
AmplitudeValues == {0, 1}
\* SolarWindDispersionScaled objects: SWDMMAX and SWPP
ScaledComponents == [SWDMMAX : AmplitudeValues, SWPP : PValues]

\* np.zeros(len(toas))
zeros(toas) == [k \in DOMAIN toas |-> 0]

\* an array times a non-negative number: np.inf * 0 is np.nan
scale(arr, x) ==
    [k \in DOMAIN arr |-> IF arr[k] = Inf THEN (IF x = 0 THEN NaN ELSE Inf) ELSE arr[k] * x]

\* Eqn. 11 of Hazboun et al. at each TOA, for p > 1
power_law_geometry(toas, p) == [k \in DOMAIN toas |-> solar_wind_geometry(toas[k], p).ret]

\* Eqn. 12 of Hazboun et al. at each TOA, for p > 1: an opaque finite number
d_power_law_geometry_dp(toas, p) == [k \in DOMAIN toas |-> 100 * toas[k] + p]

\* slip: p >= 1 for p > 1
sw_solar_wind_geometry_ge(self, toas) ==
    LET swm == self.SWM
        p == self.SWP
    IN IF swm = 0 THEN Ok(self, [k \in DOMAIN toas |-> 10 * toas[k]])
       ELSE IF swm = 1
       THEN IF p >= 1 THEN Ok(self, [k \in DOMAIN toas |-> 10 * toas[k] + p])
            ELSE Raise(self, "NotImplementedError",
                       "Solar Dispersion Delay not implemented for power-law index p <= 1")
       ELSE Raise(self, "NotImplementedError", "Solar Dispersion Delay not implemented for SWM")

\* SolarWindDispersion.solar_wind_geometry
sw_solar_wind_geometry(self, toas) ==
    LET swm == self.SWM
        p == self.SWP
    IN IF swm = 0 THEN Ok(self, [k \in DOMAIN toas |-> 10 * toas[k]])
       ELSE IF swm = 1
       THEN IF p > 1 THEN Ok(self, power_law_geometry(toas, p))
            ELSE Raise(self, "NotImplementedError",
                       "Solar Dispersion Delay not implemented for power-law index p <= 1")
       ELSE Raise(self, "NotImplementedError", "Solar Dispersion Delay not implemented for SWM")

\* SolarWindDispersion.solar_wind_dm
solar_wind_dm(self, toas) ==
    IF self.NE_SW = 0 THEN Ok(self, zeros(toas))
    ELSE IF self.SWM = 0 \/ self.SWM = 1
    THEN LET g == sw_solar_wind_geometry(self, toas)
         IN IF g.exc # "ok" THEN g ELSE Ok(self, scale(g.ret, self.NE_SW))
    ELSE Raise(self, "NotImplementedError", "Solar Dispersion Delay not implemented for SWM")

\* Dispersion.dispersion_type_delay: the delay of the component's DM
dispersion_type_delay(self, toas) == solar_wind_dm(self, toas)

\* SolarWindDispersion.solar_wind_delay
solar_wind_delay(self, toas) ==
    IF self.NE_SW = 0 THEN Ok(self, zeros(toas))
    ELSE dispersion_type_delay(self, toas)

\* SolarWindDispersion.d_dm_d_ne_sw
d_dm_d_ne_sw(self, toas) ==
    IF self.SWM = 0 \/ self.SWM = 1 THEN sw_solar_wind_geometry(self, toas)
    ELSE Raise(self, "NotImplementedError", "Solar Dispersion Delay not implemented for SWM")

\* SolarWindDispersion.d_solar_wind_geometry_d_swp
d_solar_wind_geometry_d_swp(self, toas) ==
    IF self.SWM = 0
    THEN Raise(self, "ValueError", "Solar Wind power-law index not valid for SWM")
    ELSE IF self.SWM = 1
    THEN IF self.SWP > 1 THEN Ok(self, d_power_law_geometry_dp(toas, self.SWP))
         ELSE Ok(self, [k \in DOMAIN toas |-> Inf])
    ELSE Raise(self, "NotImplementedError", "Solar Dispersion Delay not implemented for SWM")

\* SolarWindDispersion.d_dm_d_swp
d_dm_d_swp(self, toas) ==
    LET d == d_solar_wind_geometry_d_swp(self, toas)
    IN IF d.exc # "ok" THEN d ELSE Ok(self, scale(d.ret, self.NE_SW))

\* SolarWindDispersionX.solar_wind_geometry(toas, p), for a TOA table
swx_solar_wind_geometry(toas, p) ==
    IF p > 1 THEN Ok(None, power_law_geometry(toas, p))
    ELSE Raise(None, "NotImplementedError",
               "Solar Dispersion Delay not implemented for power-law index p <= 1")

\* SolarWindDispersionX.d_solar_wind_geometry_d_swxp(toas, p)
d_solar_wind_geometry_d_swxp(toas, p) ==
    IF p > 1 THEN Ok(None, d_power_law_geometry_dp(toas, p))
    ELSE Ok(None, [k \in DOMAIN toas |-> Inf])

\* SolarWindDispersionScaled.solar_wind_geometry; self holds SWDMMAX, SWPP
scaled_solar_wind_geometry(self, toas) ==
    LET p == self.SWPP
    IN IF p > 1 THEN Ok(self, power_law_geometry(toas, p))
       ELSE Raise(self, "NotImplementedError",
                  "Solar Dispersion Delay not implemented for power-law index p <= 1")

\* SolarWindDispersionScaled.d_solar_wind_geometry_d_swp
scaled_d_solar_wind_geometry_d_swp(self, toas) ==
    LET p == self.SWPP
    IN IF p > 1 THEN Ok(self, d_power_law_geometry_dp(toas, p))
       ELSE Ok(self, [k \in DOMAIN toas |-> Inf])

\* ------------------------------------------------- delay derivatives
\* 1.0 * u.MHz, in the model's frequency unit of 0.5 MHz
MHz == 2
\* observing frequencies: below, at and above 1 MHz
FreqValues == {1, MHz, 3}
\* pint.DMconst, the dispersion constant, as an opaque positive number
DMconst == 36
\* the TOA table of n TOAs: the k-th TOA is observed at MJD k
ToasOfLen(n) == [k \in 1..n |-> k]
\* toas.table["freq"] for the tables of up to MaxToas TOAs
FreqTables == UNION { [1..n -> FreqValues] : n \in 0..MaxToas }
\* the Doppler shifts of the barycentric frequency, in frequency units
DopplerShifts == {-1, 1}
\* self._parent.barycentric_radio_freq(toas): the call raises AttributeError
\* or returns the table frequency shifted to the barycentre
BaryFreqs(freq) ==
    { [exc |-> "AttributeError", ret |-> <<>>] }
    \cup { [exc |-> "ok",
            ret |-> [k \in DOMAIN freq |-> IF freq[k] + s < 1 THEN 1 ELSE freq[k] + s]] :
              s \in DopplerShifts }

\* try: bfreq = self._parent.barycentric_radio_freq(toas)
\* except AttributeError: warn(...); bfreq = toas.table["freq"]
radio_freq(freq, bary) ==
    IF bary.exc = "AttributeError"
    THEN [bfreq |-> freq, warned |-> TRUE]
    ELSE [bfreq |-> bary.ret, warned |-> FALSE]

\* DMconst * d_dm / bfreq**2 at one TOA; inf and nan stay what they are
dm_to_delay(d, f) == IF d = Inf \/ d = NaN THEN d ELSE (DMconst * d) \div (f * f)

\* Dispersion.d_delay_d_dmparam: the registered DM derivative r scaled by
\* DMconst / bfreq**2
d_delay_d_dmparam(r, freq, bary) ==
    LET bfreq == radio_freq(freq, bary).bfreq
    IN IF r.exc # "ok" THEN r
       ELSE Ok(r.self, [k \in DOMAIN r.ret |-> dm_to_delay(r.ret[k], bfreq[k])])

\* slip: no entry is zeroed
zero_low_frequency_skip(deriv, bfreq) == deriv

\* deriv[bfreq < 1.0 * u.MHz] = 0.0
zero_low_frequency(deriv, bfreq) ==
    [k \in DOMAIN deriv |-> IF bfreq[k] < MHz THEN 0 ELSE deriv[k]]

\* warn("Using topocentric frequency for dedispersion!") on a returning call
warning(f) == IF f.warned THEN "Using topocentric frequency for dedispersion!" ELSE ""

\* the body the five d_delay_d_* functions share, r being the DM derivative
\* that d_delay_d_dmparam calls
d_delay_guarded(r, freq, bary) ==
    LET f == radio_freq(freq, bary)
        deriv == d_delay_d_dmparam(r, freq, bary)
    IN IF deriv.exc # "ok" THEN deriv
       ELSE [Ok(deriv.self, zero_low_frequency(deriv.ret, f.bfreq)) EXCEPT !.msg = warning(f)]

\* SolarWindDispersion.d_delay_d_ne_sw
d_delay_d_ne_sw(self, toas, freq, bary) == d_delay_guarded(d_dm_d_ne_sw(self, toas), freq, bary)

\* SolarWindDispersion.d_delay_d_swp
d_delay_d_swp(self, toas, freq, bary) == d_delay_guarded(d_dm_d_swp(self, toas), freq, bary)

\* slip: the selector is created by the first query, which then fails for
\* want of it
swx_segment_no_selector(self, index) ==
    IF ~self.swx_toas_selector
    THEN Raise([self EXCEPT !.swx_toas_selector = TRUE], "AttributeError",
               "no attribute swx_toas_selector")
    ELSE
    LET self1 == [self EXCEPT !.swx_toas_selector = TRUE]
    IN IF ParName("SWX_", index) \notin DOMAIN self.par
       THEN Raise(self1, "AttributeError", "no attribute SWX_")
       ELSE IF index \notin DOMAIN get_prefix_mapping_component(self, "SWXP_")
       THEN Raise(self1, "KeyError", "SWXP_mapping")
       ELSE IF \/ index \notin DOMAIN get_prefix_mapping_component(self, "SWXR1_")
               \/ index \notin DOMAIN get_prefix_mapping_component(self, "SWXR2_")
       THEN Raise(self1, "KeyError", "SWXR mapping")
       ELSE IF ~HasBounds(self, index)
       THEN Raise(self1, "AttributeError", "'NoneType' object has no attribute 'mjd'")
       ELSE Ok(self1, [swx |-> self.par[ParName("SWX_", index)].value,
                       p |-> self.par[ParName("SWXP_", index)].value,
                       r1 |-> self.par[ParName("SWXR1_", index)].value,
                       r2 |-> self.par[ParName("SWXR2_", index)].value])

\* the part d_dm_d_swx and d_dm_d_swxp share: the selector, the segment's
\* parameters and the TOAs selected by its range
swx_segment(self, index) ==
    LET self1 == [self EXCEPT !.swx_toas_selector = TRUE]
    IN IF ParName("SWX_", index) \notin DOMAIN self.par
       THEN Raise(self1, "AttributeError", "no attribute SWX_")
       ELSE IF index \notin DOMAIN get_prefix_mapping_component(self, "SWXP_")
       THEN Raise(self1, "KeyError", "SWXP_mapping")
       ELSE IF \/ index \notin DOMAIN get_prefix_mapping_component(self, "SWXR1_")
               \/ index \notin DOMAIN get_prefix_mapping_component(self, "SWXR2_")
       THEN Raise(self1, "KeyError", "SWXR mapping")
       ELSE IF ~HasBounds(self, index)
       THEN Raise(self1, "AttributeError", "'NoneType' object has no attribute 'mjd'")
       ELSE Ok(self1, [swx |-> self.par[ParName("SWX_", index)].value,
                       p |-> self.par[ParName("SWXP_", index)].value,
                       r1 |-> self.par[ParName("SWXR1_", index)].value,
                       r2 |-> self.par[ParName("SWXR2_", index)].value])

\* SolarWindDispersionX.d_dm_d_swx(toas, "SWX_<index>")
d_dm_d_swx(self, toas, index) ==
    LET seg == swx_segment(self, index)
    IN IF seg.exc # "ok" THEN seg
       ELSE LET v == get_select_index([k \in {ParName("SWX_", index)} |->
                                          <<seg.ret.r1, seg.ret.r2>>], toas)[ParName("SWX_", index)]
                g == swx_solar_wind_geometry(toas, seg.ret.p)
            IN IF Len(v) = 0 THEN Ok(seg.self, zeros(toas))
               ELSE IF g.exc # "ok" THEN Raise(seg.self, g.exc, g.msg)
               ELSE Ok(seg.self, [n \in DOMAIN toas |->
                                    IF (n - 1) \in Range(v) THEN g.ret[n] ELSE 0])

\* SolarWindDispersionX.d_dm_d_swxp(toas, "SWXP_<index>")
d_dm_d_swxp(self, toas, index) ==
    LET seg == swx_segment(self, index)
    IN IF seg.exc # "ok" THEN seg
       ELSE LET v == get_select_index([k \in {ParName("SWX_", index)} |->
                                          <<seg.ret.r1, seg.ret.r2>>], toas)[ParName("SWX_", index)]
                d == d_solar_wind_geometry_d_swxp(toas, seg.ret.p)
            IN IF Len(v) = 0 THEN Ok(seg.self, zeros(toas))
               ELSE Ok(seg.self, [n \in DOMAIN toas |->
                                    IF (n - 1) \in Range(v)
                                    THEN scale(d.ret, seg.ret.swx)[n] ELSE 0])

\* SolarWindDispersionX.d_delay_d_swx
d_delay_d_swx(self, toas, index, freq, bary) ==
    d_delay_guarded(d_dm_d_swx(self, toas, index), freq, bary)

\* SolarWindDispersionX.d_delay_d_swxp
d_delay_d_swxp(self, toas, index, freq, bary) ==
    d_delay_guarded(d_dm_d_swxp(self, toas, index), freq, bary)

\* the resolution of the ratio of two geometries
GeometryScale == 100

\* SolarWindDispersionScaled.fiducial_solar_wind_geometry: the geometry at
\* the fiducial elongation, as an opaque positive number
fiducial_solar_wind_geometry(self) ==
    LET p == self.SWPP
    IN IF p > 1 THEN Ok(self, 5 + p)
       ELSE Raise(self, "NotImplementedError",
                  "Solar Dispersion Delay not implemented for power-law index p <= 1")

\* SolarWindDispersionScaled.d_dm_d_swdmmax
d_dm_d_swdmmax(self, toas) ==
    LET g == scaled_solar_wind_geometry(self, toas)
        f == fiducial_solar_wind_geometry(self)
    IN IF g.exc # "ok" THEN g
       ELSE IF f.exc # "ok" THEN f
       ELSE Ok(self, [k \in DOMAIN toas |-> (g.ret[k] * GeometryScale) \div f.ret])

\* SolarWindDispersionScaled.d_delay_d_swdmmax
d_delay_d_swdmmax(self, toas, freq, bary) ==
    d_delay_guarded(d_dm_d_swdmmax(self, toas), freq, bary)

\* --------------------------------------- SolarWindDispersionX: queries
\* the DM and DM-derivative queries on the segments
\* the TOA table of the queries: MJDs 1..MaxToas
QueryToas == { ToasOfLen(MaxToas) }

SwxQueries ==
    { [op |-> "swx_dm", toas |-> toas, index |-> 1] : toas \in QueryToas }
    \cup { [op |-> op, toas |-> toas, index |-> index] :
               op \in {"d_dm_d_swx", "d_dm_d_swxp"}, toas \in QueryToas, index \in Indices }

swx_query(self, q) ==
    CASE q.op = "swx_dm" -> swx_dm(self, q.toas)
      [] q.op = "d_dm_d_swx" -> d_dm_d_swx(self, q.toas, q.index)
      [] q.op = "d_dm_d_swxp" -> d_dm_d_swxp(self, q.toas, q.index)

\* a query; last keeps the query and the component as it was
SwxQuery ==
    \E q \in SwxQueries :
        Commit("query", [q |-> q, before |-> Self], swx_query(Self, q))

NextQuery ==
    \/ LayoutAdd
    \/ LayoutRemove
    \/ SwxQuery

SpecQuery == Init /\ [][NextQuery]_vars

\* ------------------------------------------- SolarWindDispersion: calls
\* a query on the solar-wind components: nothing but last changes
CommitQuery(op, arg, r) ==
    /\ last' = [op |-> op, arg |-> arg, exc |-> r.exc, msg |-> r.msg, ret |-> r.ret]
    /\ UNCHANGED <<dmx, binning, params, par, deriv_funcs, swx_toas_selector, raw_ops, ddgr, kep, sw>>

\* the caller assigns NE_SW, SWP or SWM
SetSolarWindParams ==
    /\ \/ \E v \in AmplitudeValues : sw' = [sw EXCEPT !.NE_SW = v]
       \/ \E v \in PValues : sw' = [sw EXCEPT !.SWP = v]
       \/ \E v \in SWMValues : sw' = [sw EXCEPT !.SWM = v]
    /\ last' = [op |-> "set", arg |-> <<>>, exc |-> "ok", msg |-> "", ret |-> None]
    /\ UNCHANGED <<dmx, binning, params, par, deriv_funcs, swx_toas_selector, raw_ops, ddgr, kep>>

SolarWindGeometry ==
    \E toas \in ToaTables :
        CommitQuery("solar_wind_geometry", toas, sw_solar_wind_geometry(sw, toas))

SolarWindDm ==
    \E toas \in ToaTables : CommitQuery("solar_wind_dm", toas, solar_wind_dm(sw, toas))

SolarWindDelay ==
    \E toas \in ToaTables : CommitQuery("solar_wind_delay", toas, solar_wind_delay(sw, toas))

DDmDNeSw ==
    \E toas \in ToaTables : CommitQuery("d_dm_d_ne_sw", toas, d_dm_d_ne_sw(sw, toas))

DSolarWindGeometryDSwp ==
    \E toas \in ToaTables :
        CommitQuery("d_solar_wind_geometry_d_swp", toas, d_solar_wind_geometry_d_swp(sw, toas))

DDmDSwp ==
    \E toas \in ToaTables : CommitQuery("d_dm_d_swp", toas, d_dm_d_swp(sw, toas))

SwxSolarWindGeometry ==
    \E toas \in ToaTables, p \in PValues :
        CommitQuery("swx.solar_wind_geometry", <<toas, p>>, swx_solar_wind_geometry(toas, p))

DSolarWindGeometryDSwxp ==
    \E toas \in ToaTables, p \in PValues :
        CommitQuery("swx.d_solar_wind_geometry_d_swxp", <<toas, p>>,
                    d_solar_wind_geometry_d_swxp(toas, p))

ScaledSolarWindGeometry ==
    \E toas \in ToaTables, self \in ScaledComponents :
        CommitQuery("scaled.solar_wind_geometry", <<toas, self.SWPP>>,
                    scaled_solar_wind_geometry(self, toas))

ScaledDSolarWindGeometryDSwp ==
    \E toas \in ToaTables, self \in ScaledComponents :
        CommitQuery("scaled.d_solar_wind_geometry_d_swp", <<toas, self.SWPP>>,
                    scaled_d_solar_wind_geometry_d_swp(self, toas))

NextSW ==
    \/ SetSolarWindParams
    \/ SolarWindGeometry \/ SolarWindDm \/ SolarWindDelay \/ DDmDNeSw
    \/ DSolarWindGeometryDSwp \/ DDmDSwp
    \/ SwxSolarWindGeometry \/ DSolarWindGeometryDSwxp
    \/ ScaledSolarWindGeometry \/ ScaledDSolarWindGeometryDSwp

SpecSW == Init /\ [][NextSW]_vars

\* ------------------------------------------------ delay derivatives: calls
\* the fitted solar-wind models: NE_SW = 1 with either model and p at and
\* above the limit
SolarWindModels == { [NE_SW |-> 1, SWP |-> p, SWM |-> m] : p \in {1, 2}, m \in {0, 1} }

SetSolarWindModel ==
    /\ \E m \in SolarWindModels : sw' = m
    /\ last' = [op |-> "set", arg |-> <<>>, exc |-> "ok", msg |-> "", ret |-> None]
    /\ UNCHANGED <<dmx, binning, params, par, deriv_funcs, swx_toas_selector, raw_ops, ddgr, kep>>

\* add_swx_range of a fitted segment with the next free index, over the
\* whole span of the TOAs
SegmentAdd ==
    \E v \in { a \in ValueArgs : ~a.frozen } :
        LET r == add_swx_range(Self, 1, MaxMJD, None, v.swx, v.swxp, v.frozen)
        IN /\ WithinBounds(r.self)
           /\ Commit("add_swx_range", <<>>, [r EXCEPT !.msg = "", !.ret = None])

\* the frequency inputs of a delay-derivative query
DelayArgs ==
    UNION { { [freq |-> freq, bary |-> bary] : bary \in BaryFreqs(freq) } :
                 freq \in FreqTables }

DDelayDNeSw ==
    \E a \in DelayArgs :
        CommitQuery("d_delay_d_ne_sw", a,
                    d_delay_d_ne_sw(sw, ToasOfLen(Len(a.freq)), a.freq, a.bary))

DDelayDSwp ==
    \E a \in DelayArgs :
        CommitQuery("d_delay_d_swp", a,
                    d_delay_d_swp(sw, ToasOfLen(Len(a.freq)), a.freq, a.bary))

DDelayDSwx ==
    \E a \in DelayArgs, index \in Indices :
        Commit("d_delay_d_swx", a @@ [index |-> index],
               d_delay_d_swx(Self, ToasOfLen(Len(a.freq)), index, a.freq, a.bary))

DDelayDSwxp ==
    \E a \in DelayArgs, index \in Indices :
        Commit("d_delay_d_swxp", a @@ [index |-> index],
               d_delay_d_swxp(Self, ToasOfLen(Len(a.freq)), index, a.freq, a.bary))

DDelayDSwdmmax ==
    \E a \in DelayArgs, self \in { c \in ScaledComponents : c.SWDMMAX = 1 } :
        CommitQuery("d_delay_d_swdmmax", a @@ [self |-> self],
                    d_delay_d_swdmmax(self, ToasOfLen(Len(a.freq)), a.freq, a.bary))

NextDelay ==
    \/ SetSolarWindModel \/ SegmentAdd
    \/ DDelayDNeSw \/ DDelayDSwp \/ DDelayDSwx \/ DDelayDSwxp \/ DDelayDSwdmmax

SpecDelay == Init /\ [][NextDelay]_vars

\* ------------------------------------------------------- DDGR: calls
CommitDDGR(op, arg, self) ==
    /\ ddgr' = self
    /\ last' = [op |-> op, arg |-> arg, exc |-> "ok", msg |-> "", ret |-> None]
    /\ UNCHANGED <<dmx, binning, params, par, deriv_funcs, swx_toas_selector, raw_ops, kep, sw>>

SetPB == \E val \in PBValues \cup {None} : CommitDDGR("PB", <<val>>, PB_setter(ddgr, val))

SetMTOT == \E val \in MTOTValues : CommitDDGR("MTOT", <<val>>, MTOT_setter(ddgr, val))

SetM2 == \E val \in M2Values \cup {None} : CommitDDGR("M2", <<val>>, M2_setter(ddgr, val))

SetA1 == \E val \in A1Values \cup {None} : CommitDDGR("A1", <<val>>, A1_setter(ddgr, val))

SetECC == \E val \in ECCValues : CommitDDGR("ECC", <<val>>, ECC_setter(ddgr, val))

SetA1DOT == \E val \in DotValues : CommitDDGR("A1DOT", <<val>>, A1DOT_setter(ddgr, val))

SetEDOT == \E val \in DotValues : CommitDDGR("EDOT", <<val>>, EDOT_setter(ddgr, val))

NextDDGR ==
    SetPB \/ SetMTOT \/ SetM2 \/ SetA1 \/ SetECC \/ SetA1DOT \/ SetEDOT

SpecDDGR == Init /\ [][NextDDGR]_vars

\* the values assigned to a derived quantity
AssignedValues == { Expr("assigned", <<v>>) : v \in DotValues }

\* an assignment to a derived quantity; last keeps the object as it was
SetDerived(name, self) ==
    CommitDDGR(name, [before |-> ddgr], self)

SetSINI == \E val \in AssignedValues : SetDerived("SINI", SINI_setter(ddgr, val))

SetPBDOT == \E val \in AssignedValues : SetDerived("PBDOT", PBDOT_setter(ddgr, val))

SetOMDOT == \E val \in AssignedValues : SetDerived("OMDOT", OMDOT_setter(ddgr, val))

SetGAMMA == \E val \in AssignedValues : SetDerived("GAMMA", GAMMA_setter(ddgr, val))

SetDR == \E val \in AssignedValues : SetDerived("DR", DR_setter(ddgr, val))

SetDTH == \E val \in AssignedValues : SetDerived("DTH", DTH_setter(ddgr, val))

\* the quantities with a d_<X>_d_par method and the parameters asked for
PartialQuantities == {"k", "SINI", "GAMMA", "PBDOT", "DR", "DTH"}
PartialPars == {"MTOT", "M2", "ECC", "PB", "A1", "EDOT"}

DXDPar ==
    \E X \in PartialQuantities, parname \in PartialPars :
        /\ ddgr' = ddgr
        /\ last' = [op |-> "d_X_d_par", arg |-> [X |-> X, par |-> parname], exc |-> "ok",
                    msg |-> "", ret |-> d_X_d_par(ddgr, X, parname)]
        /\ UNCHANGED <<dmx, binning, params, par, deriv_funcs, swx_toas_selector, raw_ops, kep, sw>>

NextPK ==
    \/ SetMTOT \/ SetECC \/ SetEDOT
    \/ SetSINI \/ SetPBDOT \/ SetOMDOT \/ SetGAMMA \/ SetDR \/ SetDTH
    \/ DXDPar

SpecPK == Init /\ [][NextPK]_vars

\* _solve_kepler, statement by statement
CommitKepler(st) ==
    /\ kep' = st
    /\ UNCHANGED <<dmx, binning, params, par, deriv_funcs, swx_toas_selector, raw_ops, ddgr, sw, last>>

KeplerEnter ==
    /\ kep.pc \in {"idle", "return"}
    /\ \E M1 \in KeplerMasses, M2 \in KeplerMasses, n \in KeplerFreqs,
          ARTOL \in ARTOLValues :
          CommitKepler(kepler_enter(M1, M2, n, ARTOL))

KeplerPass ==
    /\ kep.pc = "while"
    /\ kepler_test(kep)
    /\ kep.passes < MaxPasses
    /\ CommitKepler(kepler_pass(kep))

KeplerReturn ==
    /\ kep.pc = "while"
    /\ ~kepler_test(kep)
    /\ CommitKepler(kepler_return(kep))

NextKepler == KeplerEnter \/ KeplerPass \/ KeplerReturn

SpecKepler == Init /\ [][NextKepler]_vars

\* ================================================================ claims
Keys(self, prefix) == DOMAIN get_prefix_mapping_component(self, prefix)

FamiliesMatch(self) ==
    /\ Keys(self, "SWX_") = Keys(self, "SWXP_")
    /\ Keys(self, "SWXP_") = Keys(self, "SWXR1_")
    /\ Keys(self, "SWXR1_") = Keys(self, "SWXR2_")

\* ------------------------------------------------------ DMX bins: merge
\* the bounds and the DMX values of the bins; the values are even, so that
\* the mean of two of them is exact
DmxBounds == { <<1, 2>>, <<2, 3>>, <<1, 3>> }
DmxValues == {0, 2}
MergeValues == {"first", "second", "mean", "median"}
DmxIndices == 1..MaxDmxIndex

\* add_DMX_range(mjd_start, mjd_end, dmx=, frozen=): the next free index
add_DMX_range(self, mjd_start, mjd_end, dmxv, frozen) ==
    LET index == IF DOMAIN self = {} THEN 1 ELSE SetMax(DOMAIN self) + 1
    IN Ok(self @@ (index :> [DMX |-> dmxv, DMXR1 |-> mjd_start, DMXR2 |-> mjd_end,
                             frozen |-> frozen]), index)

\* remove_DMX_range([index1, index2])
remove_DMX_range(self, indices) ==
    IF indices \subseteq DOMAIN self
    THEN Ok([k \in DOMAIN self \ indices |-> self[k]], None)
    ELSE Raise(self, "ValueError", "Could not find DMX index in DMX parameters")

\* get_prefix_timerange(model, "DMX_<index>")
get_prefix_timerange(self, index) ==
    IF index \in DOMAIN self THEN Ok(self, <<self[index].DMXR1, self[index].DMXR2>>)
    ELSE Raise(self, "AttributeError", "no attribute DMXR1_")

\* find_prefix_bytime(model, "DMX", (tstart.mjd + tend.mjd) / 2)
find_dmx_bytime(self, tstart, tend) ==
    { k \in DOMAIN self : /\ 2 * self[k].DMXR1 <= tstart + tend
                          /\ tstart + tend < 2 * self[k].DMXR2 }

\* merge_dmx(model, index1, index2, value, frozen)
merge_dmx(self, index1, index2, value, frozen) ==
    IF value \notin {"first", "second", "mean"}
    THEN Raise(self, "AssertionError", "")
    ELSE LET t1 == get_prefix_timerange(self, index1)
             t2 == get_prefix_timerange(self, index2)
         IN IF t1.exc # "ok" THEN t1
            ELSE IF t2.exc # "ok" THEN t2
            ELSE LET tstart == IF t1.ret[1] <= t2.ret[1] THEN t1.ret[1] ELSE t2.ret[1]
                     tend == IF t1.ret[2] >= t2.ret[2] THEN t1.ret[2] ELSE t2.ret[2]
                     intervening == find_dmx_bytime(self, tstart, tend) \ {index1, index2}
                     \* the new bin is added before the two are removed
                     finish(dmxv) ==
                         LET a == add_DMX_range(self, tstart, tend, dmxv, frozen)
                             r == remove_DMX_range(a.self, {index1, index2})
                         IN IF r.exc # "ok" THEN r
                            ELSE [Ok(r.self, a.ret) EXCEPT
                                     !.msg = IF intervening = {} THEN "" ELSE "is in between"]
                 IN IF value = "first" THEN finish(self[index1].DMX)
                    \* elif value.lower == "second": the method is compared with
                    \* the string, which is never equal
                    ELSE IF FALSE THEN finish(self[index2].DMX)
                    ELSE IF value = "mean"
                    THEN finish((self[index1].DMX + self[index2].DMX) \div 2)
                    \* dmx was never assigned
                    ELSE Raise(self, "UnboundLocalError",
                               "local variable 'dmx' referenced before assignment")

\* a call on the DMX bins: only dmx and last change
CommitDmx(op, arg, r) ==
    /\ dmx' = r.self
    /\ last' = [op |-> op, arg |-> arg, exc |-> r.exc, msg |-> r.msg, ret |-> r.ret]
    /\ UNCHANGED <<params, par, deriv_funcs, swx_toas_selector, raw_ops, ddgr, kep, sw,
                   binning>>

AddDmxRange ==
    \E b \in DmxBounds, v \in DmxValues :
        LET r == add_DMX_range(dmx, b[1], b[2], v, FALSE)
        IN /\ Cardinality(DOMAIN r.self) <= MaxBins
           /\ r.ret <= MaxDmxIndex
           /\ CommitDmx("add_DMX_range", <<>>, r)

MergeDmx ==
    \E index1 \in DmxIndices, index2 \in DmxIndices, value \in MergeValues :
        LET r == merge_dmx(dmx, index1, index2, value, TRUE)
        IN /\ index1 # index2
           /\ r.exc = "ok" => r.ret <= MaxDmxIndex
           /\ CommitDmx("merge_dmx", [index1 |-> index1, index2 |-> index2,
                                      value |-> value, before |-> dmx], r)

NextDmx == AddDmxRange \/ MergeDmx

SpecDmx == Init /\ [][NextDmx]_vars

\* ----------------------------------------------------------- dmx_ranges
\* times are in units of 0.001 d, the offset under the first MJD
Milliday == 1
BinWidths == {1, 2}
\* toas.get_mjds() and the freq column, in table order; divide_freq is MHz
BinInputs ==
    UNION { { [MJDs |-> mjds, freqs |-> freqs] :
                 mjds \in [1..n -> 1..MaxMJD], freqs \in [1..n -> {1, 3}] } :
            n \in 1..MaxBinToas }

\* the positions of the MJDs after the last bin
after_prevbin(st) == { k \in DOMAIN st.MJDs : st.MJDs[k] > st.prevbinR2 }

\* MJDs = toas.get_mjds() ... prevbinR2 = MJDs[0] - 0.001 * u.d
dmx_ranges_enter(MJDs, freqs, binwidth) ==
    [pc |-> "while", MJDs |-> MJDs, freqs |-> freqs, binwidth |-> binwidth,
     DMXs |-> <<>>, prevbinR2 |-> MJDs[1] - Milliday,
     \* the bins made so far and the upper edge one pass ago
     bins |-> {}, edge_before |-> MJDs[1] - Milliday]

\* slip: prevbinR2 is moved for a good bin only
dmx_ranges_pass_good_only(st) ==
    LET first == CHOOSE k \in after_prevbin(st) : \A j \in after_prevbin(st) : k <= j
        startMJD == st.MJDs[first]
        binidx == { k \in after_prevbin(st) : st.MJDs[k] <= startMJD + st.binwidth }
        lo == { k \in binidx : st.freqs[k] < MHz }
        hi == { k \in binidx : st.freqs[k] > MHz }
    IN IF binidx = {} THEN [st EXCEPT !.pc = "after"]
       ELSE IF lo # {} /\ hi # {}
       THEN [st EXCEPT !.DMXs = Append(@, [los |-> lo, his |-> binidx \ lo]),
                       !.bins = @ \cup {binidx},
                       !.edge_before = st.prevbinR2,
                       !.prevbinR2 = SetMax({ st.MJDs[k] : k \in binidx })]
       ELSE [st EXCEPT !.bins = @ \cup {binidx},
                       !.edge_before = st.prevbinR2]

\* one pass of the while loop that does not break at its first test
dmx_ranges_pass(st) ==
    LET first == CHOOSE k \in after_prevbin(st) : \A j \in after_prevbin(st) : k <= j
        startMJD == st.MJDs[first]
        binidx == { k \in after_prevbin(st) : st.MJDs[k] <= startMJD + st.binwidth }
        lo == { k \in binidx : st.freqs[k] < MHz }
        hi == { k \in binidx : st.freqs[k] > MHz }
        good == IF lo # {} /\ hi # {}
                THEN Append(st.DMXs, [los |-> lo, his |-> binidx \ lo])
                ELSE st.DMXs
    IN IF binidx = {} THEN [st EXCEPT !.pc = "after"]
       ELSE [st EXCEPT !.DMXs = good,
                       !.bins = @ \cup {binidx},
                       !.edge_before = st.prevbinR2,
                       !.prevbinR2 = SetMax({ st.MJDs[k] : k \in binidx })]

\* if not np.any(MJDs > prevbinR2): break
dmx_ranges_break(st) == [st EXCEPT !.pc = "after"]

CommitBinning(st) ==
    /\ binning' = st
    /\ UNCHANGED <<params, par, deriv_funcs, swx_toas_selector, raw_ops, ddgr, kep, sw,
                   dmx, last>>

DmxRangesEnter ==
    /\ binning.pc = "idle"
    /\ \E a \in BinInputs, binwidth \in BinWidths :
          CommitBinning(dmx_ranges_enter(a.MJDs, a.freqs, binwidth))

DmxRangesPass ==
    /\ binning.pc = "while"
    /\ after_prevbin(binning) # {}
    /\ CommitBinning(dmx_ranges_pass(binning))

DmxRangesBreak ==
    /\ binning.pc = "while"
    /\ after_prevbin(binning) = {}
    /\ CommitBinning(dmx_ranges_break(binning))

NextBinning == DmxRangesEnter \/ DmxRangesPass \/ DmxRangesBreak

\* a call that has started runs on: the loop is taken step by step
SpecBinning ==
    Init /\ [][NextBinning]_vars /\ WF_vars(DmxRangesPass \/ DmxRangesBreak)

\* --------------------------------------------------------------- PosVel
\* obj=None, origin=None
NoLabel == "None"
Labels == {"a", "b", "c"}
Vectors == { <<0, 0, 0>>, <<1, 0, 2>> }

\* PosVel.__init__(pos, vel, obj, origin); pos and vel have length 3 and the
\* same shape
PosVel(pos, vel, obj, origin) ==
    IF (obj = NoLabel) # (origin = NoLabel)
    THEN Raise(None, "ValueError",
               "If one of obj and origin is specified, the other must be too.")
    ELSE Ok(None, [pos |-> pos, vel |-> vel, obj |-> obj, origin |-> origin])

\* the PosVel objects: unlabelled, or labelled at both ends
PosVels ==
    { PosVel(v, v, obj, origin).ret :
         v \in Vectors, obj \in Labels, origin \in Labels }
    \cup { PosVel(v, v, NoLabel, NoLabel).ret : v \in Vectors }

_has_labels(self) == self.obj # NoLabel /\ self.origin # NoLabel

VecNeg(v) == [k \in DOMAIN v |-> 0 - v[k]]
VecAdd(v, w) == [k \in DOMAIN v |-> v[k] + w[k]]

__neg__(self) == PosVel(VecNeg(self.pos), VecNeg(self.vel), self.origin, self.obj)

\* slip: the two tests are made in the other order
add_other_first(self, other) ==
    LET sum(obj, origin) ==
            PosVel(VecAdd(self.pos, other.pos), VecAdd(self.vel, other.vel), obj, origin)
    IN IF _has_labels(self) /\ _has_labels(other)
       THEN IF self.origin = other.obj THEN sum(self.obj, other.origin)
            ELSE IF self.obj = other.origin THEN sum(other.obj, self.origin)
            ELSE Raise(None, "ValueError", "Attempting to add incompatible vectors")
       ELSE sum(NoLabel, NoLabel)

__add__(self, other) ==
    LET sum(obj, origin) ==
            PosVel(VecAdd(self.pos, other.pos), VecAdd(self.vel, other.vel), obj, origin)
    IN IF _has_labels(self) /\ _has_labels(other)
       THEN IF self.obj = other.origin THEN sum(other.obj, self.origin)
            ELSE IF self.origin = other.obj THEN sum(self.obj, other.origin)
            ELSE Raise(None, "ValueError", "Attempting to add incompatible vectors")
       ELSE sum(NoLabel, NoLabel)

__sub__(self, other) == __add__(self, __neg__(other).ret)

\* an operation on PosVel objects: only last changes
CommitPosVel(op, self, other, r) ==
    /\ last' = [op |-> op, arg |-> [self |-> self, other |-> other], exc |-> r.exc,
                msg |-> r.msg,
                ret |-> IF r.exc = "ok" THEN r.ret ELSE [obj |-> NoLabel, origin |-> NoLabel]]
    /\ UNCHANGED <<params, par, deriv_funcs, swx_toas_selector, raw_ops, ddgr, kep, sw,
                   dmx, binning>>

PosVelNeg == \E self \in PosVels : CommitPosVel("__neg__", self, self, __neg__(self))

PosVelAdd ==
    \E self \in PosVels, other \in PosVels :
        CommitPosVel("__add__", self, other, __add__(self, other))

PosVelSub ==
    \E self \in PosVels, other \in PosVels :
        CommitPosVel("__sub__", self, other, __sub__(self, other))

NextPosVel == PosVelNeg \/ PosVelAdd \/ PosVelSub

SpecPosVel == Init /\ [][NextPosVel]_vars

\* ------------------------------------------- remove_swx_range: lists
\* remove_swx_range([i, j]); last keeps the component as it was before
RemoveSwxRangeList ==
    \E i \in Indices, j \in Indices :
        Commit("remove_swx_range", [index |-> <<i, j>>, before |-> Self],
               remove_swx_range(Self, ListArg(<<i, j>>)))

NextList == LayoutAdd \/ RemoveSwxRangeList

SpecList == Init /\ [][NextList]_vars

\* the parameter set: names in order, and each parameter's value and frozen flag
SameParameters(a, b) == a.params = b.params /\ a.par = b.par

\* C1: after any sequence of add_swx_range and remove_swx_range calls,
\* successful or raising, the four families SWX_, SWXP_, SWXR1_ and SWXR2_
\* have the same index set.
C1_FamiliesIdentical == FamiliesMatch(Self)

\* remove_swx_range([1, 2]) raised and left no segment: from the fresh
\* component it removes segment 1 and raises at the unregistered index 2
C1_Witness ==
    /\ last.op = "remove_swx_range"
    /\ last.exc = "ValueError"
    /\ last.arg = <<1, 2>>
    /\ Keys(Self, "SWX_") = {}
    /\ FamiliesMatch(Self)

\* C2: validate() succeeds exactly when the four index key sets are
\* identical, and raises ValueError for every mismatched parameter set.
C2_ValidateIffMatch ==
    last.op = "validate" =>
        /\ (last.exc = "ok") <=> FamiliesMatch(Self)
        /\ ~FamiliesMatch(Self) => last.exc = "ValueError"

\* validate() raised on a set in which only the SWXR2_ family differs
C2_Witness ==
    /\ last.op = "validate"
    /\ last.exc = "ValueError"
    /\ Keys(Self, "SWX_") = Keys(Self, "SWXP_")
    /\ Keys(Self, "SWX_") = Keys(Self, "SWXR1_")
    /\ Keys(Self, "SWX_") # Keys(Self, "SWXR2_")

\* C3 as amended: with at least one segment registered, add_swx_range with
\* valid bounds and index=None registers the segment under the largest
\* registered index plus one and returns that index; with no segment
\* registered it raises ValueError and adds nothing.
C3_NextIndex ==
    \A bounds \in BoundPairs, v \in ValueArgs :
        ValidBounds(bounds[1], bounds[2]) =>
            LET r == add_swx_range(Self, bounds[1], bounds[2], None, v.swx, v.swxp, v.frozen)
            IN IF Keys(Self, "SWX_") = {}
               THEN r.exc = "ValueError" /\ SameParameters(r.self, Self)
               ELSE /\ r.exc = "ok"
                    /\ r.ret = SetMax(Keys(Self, "SWX_")) + 1
                    /\ Keys(r.self, "SWX_") = Keys(Self, "SWX_") \cup {r.ret}
                    /\ r.self.par[ParName("SWX_", r.ret)].value = v.swx
                    /\ r.self.par[ParName("SWXR1_", r.ret)].value = bounds[1]
                    /\ r.self.par[ParName("SWXR2_", r.ret)].value = bounds[2]

\* add_swx_range(index=None) registered and returned the new largest index
C3_Witness ==
    /\ last.op = "add_swx_range"
    /\ last.arg = <<None>>
    /\ last.exc = "ok"
    /\ last.ret = SetMax(Keys(Self, "SWX_"))
    /\ last.ret \in Keys(Self, "SWXR2_")

\* C3 as stated: from any reachable state the call succeeds and returns the
\* largest registered index plus one.
C3_Original ==
    \A bounds \in BoundPairs, v \in ValueArgs :
        ValidBounds(bounds[1], bounds[2]) =>
            LET r == add_swx_range(Self, bounds[1], bounds[2], None, v.swx, v.swxp, v.frozen)
            IN /\ r.exc = "ok"
               /\ Keys(Self, "SWX_") # {}
               /\ r.ret = SetMax(Keys(Self, "SWX_")) + 1
               /\ r.ret \in Keys(r.self, "SWX_")

\* C4: add_swx_range with an index that is already registered raises
\* ValueError and leaves every parameter of the four families as it was.
C4_ReusedIndexRejected ==
    \A index \in Keys(Self, "SWX_"), bounds \in BoundPairs, v \in ValueArgs :
        LET r == add_swx_range(Self, bounds[1], bounds[2], index, v.swx, v.swxp, v.frozen)
        IN r.exc = "ValueError" /\ SameParameters(r.self, Self)

\* add_swx_range was refused for an index in use
C4_Witness ==
    /\ last.op = "add_swx_range"
    /\ last.exc = "ValueError"
    /\ last.msg = "Index is already in use in this model."
    /\ last.arg[1] \in Keys(Self, "SWX_")

\* C5: add_swx_range raises and adds nothing when mjd_end < mjd_start and
\* when exactly one bound is None; it accepts start = end and both None.
C5_BoundsChecked ==
    \A index \in IndexArgs, bounds \in BoundPairs, v \in ValueArgs :
        LET r == add_swx_range(Self, bounds[1], bounds[2], index, v.swx, v.swxp, v.frozen)
            inverted == bounds[1] # None /\ bounds[2] # None /\ bounds[2] < bounds[1]
            partial == (bounds[1] = None) # (bounds[2] = None)
        IN /\ (inverted \/ partial) =>
                r.exc = "ValueError" /\ SameParameters(r.self, Self)
           /\ (bounds[1] = bounds[2] /\ index # None /\ index \notin Keys(Self, "SWX_")) =>
                /\ r.exc = "ok"
                /\ r.ret = index
                /\ r.self.par[ParName("SWXR1_", index)].value = bounds[1]
                /\ r.self.par[ParName("SWXR2_", index)].value = bounds[2]

\* add_swx_range accepted a segment whose start equals its end
C5_Witness ==
    /\ last.op = "add_swx_range"
    /\ last.exc = "ok"
    /\ par[ParName("SWXR1_", last.ret)].value # None
    /\ par[ParName("SWXR1_", last.ret)].value = par[ParName("SWXR2_", last.ret)].value

\* the names of params without the four parameters of the given indices
RECURSIVE WithoutIndices(_, _)
WithoutIndices(names, removed) ==
    IF names = <<>> THEN <<>>
    ELSE (IF Head(names)[2] \in removed THEN <<>> ELSE <<Head(names)>>)
         \o WithoutIndices(Tail(names), removed)

\* C6: remove_swx_range of a registered index, or of a list of registered
\* indices, deletes exactly the four parameters of each given index and
\* leaves every other parameter in place with its value and frozen flag.
C6_RemoveFrame ==
    \A index \in RemoveArgs :
        Range(index.v) \subseteq Keys(Self, "SWX_") =>
            LET r == remove_swx_range(Self, index)
            IN /\ r.self.params = WithoutIndices(params, Range(index.v))
               /\ DOMAIN r.self.par = Range(r.self.params)
               /\ \A n \in DOMAIN r.self.par : r.self.par[n] = par[n]

\* remove_swx_range removed one registered index and another segment stayed
C6_Witness ==
    /\ last.op = "remove_swx_range"
    /\ last.exc = "ok"
    /\ Len(last.arg) = 1
    /\ last.arg[1] \notin Keys(Self, "SWX_")
    /\ Keys(Self, "SWX_") # {}

\* C7: add_swx_range followed at once by remove_swx_range of the returned
\* index restores the parameter set: the same indices and, for every
\* segment, the same value, power-law index, bounds and frozen flag.
C7_RoundTrip ==
    \A index \in IndexArgs, bounds \in BoundPairs, v \in ValueArgs :
        LET r == add_swx_range(Self, bounds[1], bounds[2], index, v.swx, v.swxp, v.frozen)
        IN r.exc = "ok" =>
            LET q == remove_swx_range(r.self, IntArg(r.ret))
            IN q.exc = "ok" /\ SameParameters(q.self, Self)

\* an index that add_swx_range had registered (its derivative functions are
\* still there) was removed again, with another segment left untouched
C7_Witness ==
    /\ last.op = "remove_swx_range"
    /\ last.exc = "ok"
    /\ last.arg = <<2>>
    /\ ParName("SWX_", 2) \in deriv_funcs
    /\ 2 \notin Keys(Self, "SWX_")
    /\ 1 \in Keys(Self, "SWX_")

\* C8 as amended: get_indices() returns every registered segment index
\* exactly once, in the order in which the SWX_ parameters were registered.
C8_IndicesInRegistrationOrder ==
    LET inds == get_indices(Self).ret
        pos(i) == CHOOSE k \in DOMAIN params : params[k] = ParName("SWX_", i)
    IN /\ Range(inds) = Keys(Self, "SWX_")
       /\ Len(inds) = Cardinality(Keys(Self, "SWX_"))
       /\ \A a \in DOMAIN inds, b \in DOMAIN inds : a < b => pos(inds[a]) < pos(inds[b])

\* get_indices() returned the indices out of ascending order
C8_Witness ==
    /\ last.op = "get_indices"
    /\ last.ret = <<2, 1>>

\* C8 as stated: get_indices() returns the indices in ascending order.
C8_Original == get_indices(Self).ret = SortedSeq(Keys(Self, "SWX_"))

\* the non-frozen segments with no TOA t with start <= t < end, ascending
MissingSegments(self, toas) ==
    { k \in Keys(self, "SWX_") :
        /\ ~self.par[ParName("SWX_", k)].frozen
        /\ ~\E n \in DOMAIN toas :
              /\ HasBounds(self, k)
              /\ self.par[ParName("SWXR1_", k)].value <= toas[n]
              /\ toas[n] < self.par[ParName("SWXR2_", k)].value }

\* C9: validate_toas raises MissingTOAs listing every non-frozen segment
\* without a TOA in [start, end), never a frozen one, and raises nothing
\* when every non-frozen segment holds a TOA.
C9_Original ==
    \A toas \in ToaTables :
        LET r == validate_toas(Self, toas)
            missing == SortedSeq(MissingSegments(Self, toas))
        IN IF missing = <<>> THEN r.exc = "ok"
           ELSE /\ r.exc = "MissingTOAs"
                /\ r.ret = [n \in DOMAIN missing |-> ParName("SWX_", missing[n])]

\* validate_toas on segments that all have bounds (not the original claim:
\* the unset bounds of a fresh component are left out)
C9_WithBounds ==
    (\A k \in Keys(Self, "SWX_") :
        ~par[ParName("SWX_", k)].frozen => HasBounds(Self, k)) => C9_Original

\* C10: membership is the half-open interval [start, end) in the selector,
\* in validate_toas and in find_prefix_bytime alike; (55000, 55010) over
\* [54999, 55000, 55005, 55010, 55011] selects the positions [1, 2].
C10_HalfOpen ==
    /\ get_select_index([c \in {"SWX_0001"} |-> <<55000, 55010>>],
                        <<54999, 55000, 55005, 55010, 55011>>)["SWX_0001"] = <<1, 2>>
    /\ (\A k \in Keys(Self, "SWX_") : HasBounds(Self, k)) =>
         \A t \in ToaMJDs :
            LET inside == { k \in Keys(Self, "SWX_") :
                              /\ par[ParName("SWXR1_", k)].value <= t
                              /\ t < par[ParName("SWXR2_", k)].value }
                selected == get_select_index(swx_condition(Self), <<t>>)
                bad == validate_toas(Self, <<t>>).ret
                found == find_prefix_bytime(Self, t)
            IN /\ \A k \in Keys(Self, "SWX_") :
                    selected[ParName("SWX_", k)] = IF k \in inside THEN <<0>> ELSE <<>>
               /\ \A k \in Keys(Self, "SWX_") :
                    ~par[ParName("SWX_", k)].frozen =>
                        (ParName("SWX_", k) \in Range(bad) <=> k \notin inside)
               /\ Keys(Self, "SWX_") # {} =>
                    found.exc = "ok" /\ Range(found.ret.v) = inside

\* find_prefix_bytime was asked for the end of a non-empty segment and did
\* not return that segment
C10_Witness ==
    /\ last.op = "find_prefix_bytime"
    /\ last.exc = "ok"
    /\ \E k \in Keys(Self, "SWX_") :
          /\ HasBounds(Self, k)
          /\ par[ParName("SWXR1_", k)].value < par[ParName("SWXR2_", k)].value
          /\ par[ParName("SWXR2_", k)].value = last.arg[1]
          /\ k \notin Range(last.ret.v)
    /\ \A k \in Keys(Self, "SWX_") : HasBounds(Self, k)

\* C11: _solve_kepler terminates for every input: its loop makes at most
\* one pass, a call that is not at its return can take a step, and the
\* call returns (arr0, arr).
C11_Terminates ==
    kep.pc # "idle" =>
        /\ kep.passes <= 1
        /\ kep.pc = "while" => (kepler_test(kep) => kep.passes < 1)
        /\ kep.pc = "return" => kep.ret = <<kep.arr0, kep.arr>>

\* a call returned after one pass of its loop
C11_Witness ==
    /\ kep.pc = "return"
    /\ kep.passes = 1
    /\ kep.ret = <<kep.arr0, kep.arr>>

\* C12: every pass stores the new value into arr, so that at the return arr
\* is the iterate computed from arr_old and the two differ by at most ARTOL
\* in relative terms.
C12_Original ==
    kep.pc = "return" =>
        /\ kep.arr = kepler_iterate(kep.M1, kep.M2, kep.MTOT, kep.arr0, kep.arr_old)
        /\ ~kepler_test(kep)

\* C13 as amended: for positive masses and orbital frequency the
\* relativistic semi-major axis arr returned by _solve_kepler is smaller
\* than the Newtonian estimate arr0 returned with it.
C13_BelowNewtonian ==
    kep.pc = "return" => 0 < kep.ret[2] /\ kep.ret[2] < kep.ret[1]

\* a call with the default tolerance returned a relativistic value below
\* the Newtonian one
C13_Witness ==
    /\ kep.pc = "return"
    /\ kep.ARTOL = ARTOL_DEN
    /\ kep.ret[2] < kep.ret[1]

\* C13 as stated: the returned arr exceeds the returned arr0.
C13_Original ==
    kep.pc = "return" => kep.ret[2] > kep.ret[1]

\* C14: when PB, ECC, M2, MTOT and A1 all hold values, the derived
\* quantities are what _updatePK computes from the current parameters.
C14_DerivedFresh ==
    (\A p \in Required : ddgr[p] # None) => ddgr = updatePK(ddgr)

\* EDOT was assigned a non-zero value on a model with every parameter set,
\* and er carries the new eccentricity
C14_Witness ==
    /\ last.op = "EDOT"
    /\ last.arg = <<1>>
    /\ \A p \in Required : ddgr[p] # None
    /\ ddgr.er[2] = ddgr.ECC + tt0

\* C15: with SWM other than 0 or 1, solar_wind_dm, solar_wind_geometry and
\* d_dm_d_ne_sw raise NotImplementedError for every parameter state, also
\* with NE_SW = 0; none of them returns a value.
C15_Original ==
    sw.SWM \notin {0, 1} =>
        \A toas \in ToaTables :
            /\ solar_wind_dm(sw, toas).exc = "NotImplementedError"
            /\ sw_solar_wind_geometry(sw, toas).exc = "NotImplementedError"
            /\ d_dm_d_ne_sw(sw, toas).exc = "NotImplementedError"

\* with a non-zero NE_SW the three queries do raise
C15_NonZeroAmplitude ==
    (sw.SWM \notin {0, 1} /\ sw.NE_SW # 0) => C15_Original

\* C16: with p <= 1 no general-power-law geometry evaluation returns a
\* value: the three geometry functions raise NotImplementedError and the
\* three derivatives with respect to p return np.inf at each TOA.
C16_NoFiniteGeometry ==
    \A toas \in ToaTables :
        /\ (sw.SWM = 1 /\ sw.SWP <= 1) =>
              /\ sw_solar_wind_geometry(sw, toas).exc = "NotImplementedError"
              /\ d_solar_wind_geometry_d_swp(sw, toas).exc = "ok"
              /\ d_solar_wind_geometry_d_swp(sw, toas).ret = [k \in DOMAIN toas |-> Inf]
        /\ \A p \in PValues : p <= 1 =>
              /\ swx_solar_wind_geometry(toas, p).exc = "NotImplementedError"
              /\ d_solar_wind_geometry_d_swxp(toas, p).exc = "ok"
              /\ d_solar_wind_geometry_d_swxp(toas, p).ret = [k \in DOMAIN toas |-> Inf]
        /\ \A self \in ScaledComponents : self.SWPP <= 1 =>
              /\ scaled_solar_wind_geometry(self, toas).exc = "NotImplementedError"
              /\ scaled_d_solar_wind_geometry_d_swp(self, toas).exc = "ok"
              /\ scaled_d_solar_wind_geometry_d_swp(self, toas).ret
                    = [k \in DOMAIN toas |-> Inf]

\* solar_wind_geometry raised for SWM = 1 at the limit p = 1 on a table
\* with a TOA
C16_Witness ==
    /\ last.op = "solar_wind_geometry"
    /\ last.exc = "NotImplementedError"
    /\ sw.SWM = 1
    /\ sw.SWP = 1
    /\ Len(last.arg) > 0

\* the d_delay_d_* queries
DelayQueries ==
    {"d_delay_d_ne_sw", "d_delay_d_swp", "d_delay_d_swx", "d_delay_d_swxp", "d_delay_d_swdmmax"}

\* the last delay-derivative query, asked again with the arguments args
AskedAgain(args) ==
    LET toas == ToasOfLen(Len(args.freq))
    IN CASE last.op = "d_delay_d_ne_sw" -> d_delay_d_ne_sw(sw, toas, args.freq, args.bary)
         [] last.op = "d_delay_d_swp" -> d_delay_d_swp(sw, toas, args.freq, args.bary)
         [] last.op = "d_delay_d_swx" -> d_delay_d_swx(Self, toas, args.index, args.freq, args.bary)
         [] last.op = "d_delay_d_swxp" ->
                d_delay_d_swxp(Self, toas, args.index, args.freq, args.bary)
         [] last.op = "d_delay_d_swdmmax" ->
                d_delay_d_swdmmax(args.self, toas, args.freq, args.bary)

\* C18: a delay-derivative query that returns has 0 at each TOA whose
\* frequency (barycentric, or topocentric when the parent raises
\* AttributeError) is below 1 MHz; when the barycentric frequency is
\* unavailable the query warns and ends as it does when the parent returns
\* the topocentric frequencies of the table.
C18_LowFrequencyGuard ==
    last.op \in DelayQueries =>
        LET bfreq == IF last.arg.bary.exc = "ok" THEN last.arg.bary.ret ELSE last.arg.freq
            topo == AskedAgain([last.arg EXCEPT !.bary = [exc |-> "ok", ret |-> last.arg.freq]])
        IN /\ last.exc = "ok" =>
                 /\ DOMAIN last.ret = DOMAIN last.arg.freq
                 /\ \A k \in DOMAIN last.ret : bfreq[k] < MHz => last.ret[k] = 0
           /\ last.arg.bary.exc = "AttributeError" =>
                 /\ last.exc = topo.exc
                 /\ last.ret = topo.ret
                 /\ last.exc = "ok" => last.msg = "Using topocentric frequency for dedispersion!"

\* d_delay_d_swx of a segment holding a TOA below 1 MHz, the parent raising
\* AttributeError: the query warned and returned 0 there
C18_Witness ==
    /\ last.op = "d_delay_d_swx"
    /\ last.exc = "ok"
    /\ last.arg.bary.exc = "AttributeError"
    /\ last.arg.freq = <<1>>
    /\ last.ret = <<0>>
    /\ last.msg = "Using topocentric frequency for dedispersion!"
    /\ HasBounds(Self, last.arg.index)

\* C17: remove_swx_range called with an argument that is not an int or a
\* list raises TypeError before removing any parameter; a non-integral
\* number is not truncated to an index and removed.
C17_Original ==
    (last.op = "remove_swx_range" /\ last.arg.index.type \notin {"int", "list"}) =>
        /\ last.exc = "TypeError"
        /\ Self = last.arg.before

\* C17 as the code has it: an argument that is not an int, float, np.int64,
\* list or ndarray raises TypeError before removing any parameter; a float
\* is accepted and converted with int(), so a non-integral number is
\* truncated and the call ends as it does for that int.
C17_TypeErrorFirst ==
    last.op = "remove_swx_range" =>
        /\ last.arg.index.type \notin {"int", "float", "list"} =>
              /\ last.exc = "TypeError"
              /\ Self = last.arg.before
        /\ last.arg.index.type = "float" =>
              LET r == remove_swx_range(last.arg.before, IntArg(last.arg.index.v[1] \div 2))
              IN /\ last.exc = r.exc
                 /\ Self = r.self

\* a str was passed to a component holding a segment with bounds: TypeError,
\* the component as before
C17_Witness ==
    /\ last.op = "remove_swx_range"
    /\ last.arg.index = StrArg
    /\ last.exc = "TypeError"
    /\ Self = last.arg.before
    /\ \E k \in Keys(Self, "SWX_") : HasBounds(Self, k)

\* the float 1.5 was passed and segment 1 is gone
C17_Truncated ==
    /\ last.op = "remove_swx_range"
    /\ last.arg.index = FloatArg(3)
    /\ 1 \in Keys(last.arg.before, "SWX_")
    /\ 1 \notin Keys(Self, "SWX_")

\* C19: add_swx_range and remove_swx_range alike re-run setup() before they
\* return, so that on return from add_swx_range derivative functions are
\* registered for the new SWX_ and SWXP_ parameters.
C19_Original ==
    (last.op \in {"add_swx_range", "remove_swx_range"} /\ last.exc = "ok") =>
        /\ last.setup_run
        /\ last.op = "add_swx_range" =>
              /\ ParName("SWX_", last.ret) \in deriv_funcs
              /\ ParName("SWXP_", last.ret) \in deriv_funcs

\* C19 as the code has it: add_swx_range re-runs setup() before it returns,
\* so that derivative functions are registered for the new SWX_ and SWXP_
\* parameters; remove_swx_range does not re-run setup().
C19_SetupOnAdd ==
    /\ (last.op = "add_swx_range" /\ last.exc = "ok") =>
          /\ last.setup_run
          /\ ParName("SWX_", last.ret) \in deriv_funcs
          /\ ParName("SWXP_", last.ret) \in deriv_funcs
    /\ last.op = "remove_swx_range" => ~last.setup_run

\* add_swx_range returned the index of a new segment whose SWX_ and SWXP_
\* parameters have derivative functions
C19_Witness ==
    /\ last.op = "add_swx_range"
    /\ last.exc = "ok"
    /\ last.ret = 2
    /\ last.setup_run
    /\ {ParName("SWX_", 2), ParName("SWXP_", 2)} \subseteq deriv_funcs

\* remove_swx_range returned without a call of setup()
C19_RemoveWithoutSetup ==
    /\ last.op = "remove_swx_range"
    /\ last.exc = "ok"
    /\ ~last.setup_run

\* some index has a SWX_ parameter and lacks one of the given families
Lacks(self, prefixes) ==
    \E i \in Keys(self, "SWX_") : \E pre \in prefixes : i \notin Keys(self, pre)

\* C20: for a component in which some index has a SWX_ parameter but lacks
\* a co-indexed SWXP_, SWXR1_ or SWXR2_ parameter, setup() followed by
\* validate() ends in the structural error, and setup() adds, removes and
\* defaults no parameter.
C20_Original ==
    (last.op = "setup_validate" /\ Lacks(last.arg.before, {"SWXP_", "SWXR1_", "SWXR2_"})) =>
        /\ last.exc = "ValueError"
        /\ params = last.arg.before.params
        /\ par = last.arg.before.par

\* C20 as the code has it: for a component in which some index has a SWX_
\* parameter but lacks a co-indexed SWXR1_ or SWXR2_ parameter, setup()
\* followed by validate() ends in the structural error; setup() removes no
\* parameter and adds only a default SWXP_ parameter of value 2 for each
\* SWX_ index that lacks one.
C20_RangeMismatchIsError ==
    last.op = "setup_validate" =>
        LET before == last.arg.before
            defaulted == { ParName("SWXP_", i) : i \in Keys(before, "SWX_") } \ DOMAIN before.par
        IN /\ Lacks(before, {"SWXR1_", "SWXR2_"}) => last.exc = "ValueError"
           /\ Range(params) = Range(before.params) \cup defaulted
           /\ DOMAIN par = DOMAIN before.par \cup defaulted
           /\ \A n \in DOMAIN before.par : par[n] = before.par[n]
           /\ \A n \in defaulted : par[n].value = 2

\* SWX_0002 was added without its bounds: setup() put in SWXP_0002 with the
\* default 2 and validate() raised the structural error
C20_Witness ==
    /\ last.op = "setup_validate"
    /\ last.exc = "ValueError"
    /\ ParName("SWX_", 2) \in DOMAIN last.arg.before.par
    /\ ParName("SWXR1_", 2) \notin DOMAIN par
    /\ ParName("SWXP_", 2) \notin DOMAIN last.arg.before.par
    /\ par[ParName("SWXP_", 2)].value = 2

\* SWXP_0001 was removed: setup() put it back with the default and
\* validate() passed
C20_Repaired ==
    /\ last.op = "setup_validate"
    /\ last.exc = "ok"
    /\ ParName("SWXP_", 1) \notin DOMAIN last.arg.before.par
    /\ ParName("SWXP_", 1) \in DOMAIN par

RECURSIVE SegmentSum(_, _, _)
\* the sum, over the segments of keys whose [start, end) holds the MJD t, of
\* the segment's density times the geometry at t for the segment's own index
SegmentSum(self, keys, t) ==
    IF keys = <<>> THEN 0
    ELSE LET k == Head(keys)
             holds == /\ self.par[ParName("SWXR1_", k)].value <= t
                      /\ t < self.par[ParName("SWXR2_", k)].value
         IN (IF holds
             THEN self.par[ParName("SWX_", k)].value
                  * solar_wind_geometry(t, self.par[ParName("SWXP_", k)].value).ret
             ELSE 0)
            + SegmentSum(self, Tail(keys), t)

Bounds(self, k) ==
    <<self.par[ParName("SWXR1_", k)].value, self.par[ParName("SWXR2_", k)].value>>

SplitKeepsSegment(before, after, index, newindex) ==
    /\ after.par[ParName("SWX_", newindex)] = before.par[ParName("SWX_", index)]
    /\ after.par[ParName("SWXP_", newindex)].value = before.par[ParName("SWXP_", index)].value
    /\ \A t \in ToaMJDs :
          (Bounds(before, index)[1] <= t /\ t < Bounds(before, index)[2]) =>
              swx_dm(after, <<t>>).ret = swx_dm(before, <<t>>).ret

\* C28: after split_swx the new segment carries the SWX value, the frozen
\* flag and the SWXP value of the segment it was split from, so the DM of
\* every TOA of the original interval is the same before and after.
C28_Original ==
    (last.op = "split_swx" /\ last.exc = "ok") =>
        SplitKeepsSegment(last.arg.before, Self, last.ret[1], last.ret[2])

\* a segment whose power-law index is the default 2 is split as C28 says
C28_DefaultIndex ==
    (/\ last.op = "split_swx"
     /\ last.exc = "ok"
     /\ last.arg.before.par[ParName("SWXP_", last.ret[1])].value = 2) =>
        SplitKeepsSegment(last.arg.before, Self, last.ret[1], last.ret[2])

\* C23: an assignment to SINI, PBDOT, OMDOT, GAMMA, DR or DTH changes no
\* parameter and no derived quantity, and reading the quantity afterwards
\* gives what it gave before.
C23_DerivedSettersInert ==
    last.op \in DerivedOnly =>
        /\ ddgr = last.arg.before
        /\ read(ddgr, last.op) = read(last.arg.before, last.op)
        /\ ddgr = updatePK(ddgr)

\* DTH was assigned after MTOT was set to 4 and still is the value derived
\* from MTOT = 4
C23_Witness ==
    /\ last.op = "DTH"
    /\ ddgr.MTOT = 4
    /\ ddgr.DTH[1] = "DTH"
    /\ ddgr.DTH[2] = 4
    /\ ddgr = last.arg.before

\* X changes with the parameter P in _updatePK, the other parameters as
\* they are
DependsOn(X, P) ==
    \E v \in (PBValues \cup M2Values \cup MTOTValues \cup ECCValues) :
        updatePK([ddgr EXCEPT ![P] = v])[X] # ddgr[X]

\* C26: for X in {k, SINI, GAMMA, PBDOT, DR, DTH} and P among MTOT, M2, ECC,
\* PB on which X depends, d_X_d_par(P) is the closed-form partial and not
\* the all-zeros fallback; in particular d_DTH_d_par("MTOT").
C26_Original ==
    (/\ last.op = "d_X_d_par"
     /\ last.arg.par \in {"MTOT", "M2", "ECC", "PB"}
     /\ DependsOn(last.arg.X, last.arg.par)) =>
        last.ret[1] = "closed form"

\* every such partial but that of DTH with respect to MTOT is a closed form
C26_ExceptDTH ==
    (/\ last.op = "d_X_d_par"
     /\ last.arg.par \in {"MTOT", "M2", "ECC", "PB"}
     /\ DependsOn(last.arg.X, last.arg.par)
     /\ last.arg # [X |-> "DTH", par |-> "MTOT"]) =>
        last.ret[1] = "closed form"

\* the parameters a quantity depends on are those of its formula
C26_Dependences ==
    \A X \in PartialQuantities :
        { P \in {"MTOT", "M2", "ECC", "PB"} : DependsOn(X, P) }
            = CASE X = "k" -> {"MTOT", "ECC", "PB"}
                [] X \in {"SINI", "DR", "DTH"} -> {"MTOT", "M2", "PB"}
                [] OTHER -> {"MTOT", "M2", "ECC", "PB"}

\* two outcomes are the same result or the same exception
SameOutcome(r1, r2) ==
    /\ r1.exc = r2.exc
    /\ r1.msg = r2.msg
    /\ r1.exc = "ok" => r1.ret = r2.ret

C25_Mergeable ==
    /\ last.op = "merge_dmx"
    /\ last.arg.value \in {"first", "second", "mean"}
    /\ {last.arg.index1, last.arg.index2} \subseteq DOMAIN last.arg.before

\* the call added one bin over both ranges with the given value, removed
\* the two bins and returned the new index
Merged(before, after, index1, index2, newindex, dmxv) ==
    /\ newindex \notin DOMAIN before
    /\ DOMAIN after = (DOMAIN before \ {index1, index2}) \cup {newindex}
    /\ \A k \in DOMAIN after \ {newindex} : after[k] = before[k]
    /\ after[newindex].DMX = dmxv
    /\ after[newindex].DMXR1 \in {before[index1].DMXR1, before[index2].DMXR1}
    /\ after[newindex].DMXR1 <= before[index1].DMXR1
    /\ after[newindex].DMXR1 <= before[index2].DMXR1
    /\ after[newindex].DMXR2 = SetMax({before[index1].DMXR2, before[index2].DMXR2})

\* C25: merge_dmx(model, index1, index2, value) with value "first", "second"
\* or "mean" adds one bin over [min start, max end] whose DMX is that of
\* index1, that of index2 or their average, removes the two bins and
\* returns the new index.
C25_Original ==
    C25_Mergeable =>
        LET b == last.arg.before
            v == last.arg.value
        IN /\ last.exc = "ok"
           /\ Merged(b, dmx, last.arg.index1, last.arg.index2, last.ret,
                     CASE v = "first" -> b[last.arg.index1].DMX
                       [] v = "second" -> b[last.arg.index2].DMX
                       [] v = "mean" -> (b[last.arg.index1].DMX + b[last.arg.index2].DMX) \div 2)

\* with "first" and "mean" the call does what is stated
C25_FirstAndMean ==
    (C25_Mergeable /\ last.arg.value # "second") =>
        LET b == last.arg.before
        IN /\ last.exc = "ok"
           /\ Merged(b, dmx, last.arg.index1, last.arg.index2, last.ret,
                     IF last.arg.value = "first" THEN b[last.arg.index1].DMX
                     ELSE (b[last.arg.index1].DMX + b[last.arg.index2].DMX) \div 2)

\* with "second" the call raises UnboundLocalError and leaves the bins
C25_SecondRaises ==
    (C25_Mergeable /\ last.arg.value = "second") =>
        /\ last.exc = "UnboundLocalError"
        /\ dmx = last.arg.before

\* the loop of dmx_ranges as it stands after each pass: the upper edge has
\* moved up, no TOA is in two bins, and the loop is left only when no MJD
\* is above the edge
C30_LoopInvariant ==
    binning.pc # "idle" =>
        /\ binning.bins # {} => binning.prevbinR2 > binning.edge_before
        /\ \A b1 \in binning.bins, b2 \in binning.bins : b1 # b2 => b1 \cap b2 = {}
        /\ Cardinality(binning.bins) <= Len(binning.MJDs)
        /\ binning.pc = "after" => after_prevbin(binning) = {}

\* C30: the binning loop of dmx_ranges terminates for every non-empty TOA
\* set and positive binwidth: prevbinR2 increases on every pass, each TOA is
\* placed in at most one bin, and the loop stops once no MJD exceeds
\* prevbinR2.
C30_Terminates ==
    /\ []C30_LoopInvariant
    /\ (binning.pc = "while") ~> (binning.pc = "after")

\* the loop ended after two passes, which made two bins of three TOAs, one
\* of them with TOAs on both sides of the dividing frequency
C30_Witness ==
    /\ binning.pc = "after"
    /\ Cardinality(binning.bins) = 2
    /\ Len(binning.DMXs) = 1
    /\ UNION binning.bins = DOMAIN binning.MJDs
    /\ Len(binning.MJDs) = 3

\* the obj of the one is the origin of the other
Chains(s, o) == s.obj = o.origin

\* the labels of self + other as stated: origin -> obj
AddLabels(s, o, r) ==
    IF ~(_has_labels(s) /\ _has_labels(o))
    THEN r.exc = "ok" /\ r.ret.obj = NoLabel /\ r.ret.origin = NoLabel
    ELSE /\ r.exc = "ok" <=> (Chains(s, o) \/ Chains(o, s))
         /\ r.exc # "ok" => r.exc = "ValueError"
         /\ Chains(s, o) => r.ret.origin = s.origin /\ r.ret.obj = o.obj
         /\ (Chains(o, s) /\ ~Chains(s, o)) => r.ret.origin = o.origin /\ r.ret.obj = s.obj

\* C27: adding two labelled PosVel vectors succeeds only when the obj of one
\* is the origin of the other: a->b plus b->c gives a->c, and when both ends
\* agree the result has the origin of the left operand; otherwise ValueError.
\* Negation swaps obj and origin, subtraction adds the negation, and with an
\* unlabelled operand the result is unlabelled.
C27_Labels ==
    LET s == last.arg.self
        o == last.arg.other
    IN /\ last.op = "__add__" =>
             /\ AddLabels(s, o, last)
             /\ last.exc = "ok" => last.ret.pos = VecAdd(s.pos, o.pos)
       /\ last.op = "__neg__" =>
             /\ last.exc = "ok"
             /\ last.ret.obj = s.origin /\ last.ret.origin = s.obj
             /\ last.ret.pos = VecNeg(s.pos) /\ last.ret.vel = VecNeg(s.vel)
       /\ last.op = "__sub__" =>
             /\ AddLabels(s, [o EXCEPT !.obj = o.origin, !.origin = o.obj], last)
             /\ last.exc = "ok" => last.ret.pos = VecAdd(s.pos, VecNeg(o.pos))

\* a->b plus b->a, which agree at both ends, gave a->a
C27_Witness ==
    /\ last.op = "__add__"
    /\ last.exc = "ok"
    /\ last.arg.self.origin = "a" /\ last.arg.self.obj = "b"
    /\ last.arg.other.origin = "b" /\ last.arg.other.obj = "a"
    /\ last.ret.origin = "a" /\ last.ret.obj = "a"

\* the call on a list raised
C29_ListRaised ==
    /\ last.op = "remove_swx_range"
    /\ last.exc # "ok"

\* C29 as stated: if remove_swx_range on a list raises because a listed
\* index is not registered, no listed segment has been removed and the
\* parameter set is as before the call.
C29_Original ==
    C29_ListRaised => SameParameters(Self, last.arg.before)

\* C29, amended: if remove_swx_range on a list raises because a listed index
\* is not registered, the segments listed before that index have been
\* removed and no other parameter has changed; the parameter set is as
\* before the call when the first listed index is the one not registered.
C29_ListedBeforeRemoved ==
    C29_ListRaised =>
        LET before == last.arg.before
            index == last.arg.index
            removed == IF index[1] \notin Keys(before, "SWX_") THEN {} ELSE {index[1]}
        IN /\ index[1] \notin Keys(before, "SWX_") \/ index[2] \notin Keys(before, "SWX_") \ {index[1]}
           /\ Self.params = WithoutIndices(before.params, removed)
           /\ DOMAIN Self.par = Range(Self.params)
           /\ \A n \in DOMAIN Self.par : Self.par[n] = before.par[n]
           /\ FamiliesMatch(Self)

\* remove_swx_range([1, 2]) with segment 2 not registered raised, and
\* segment 1 is gone
C29_Witness ==
    /\ C29_ListRaised
    /\ last.arg.index = <<1, 2>>
    /\ 1 \in Keys(last.arg.before, "SWX_")
    /\ 1 \notin Keys(Self, "SWX_")
    /\ ~SameParameters(Self, last.arg.before)
====
